---- MODULE Spec2Model ----
(***************************************************************************)
(* intersphinx_registry: the token model (normalise_token_stream), the     *)
(* URL matcher (uri_match) and the pattern matchers (_compute_replacement) *)
(* of the reverse-search rewrite engine.                                   *)
(*                                                                         *)
(* A Python str is modelled as a sequence of one-character strings, so     *)
(* that slicing, searching and regular-expression matching are computed    *)
(* character by character, as the interpreter computes them.               *)
(***************************************************************************)
EXTENDS Integers, Sequences, FiniteSets, TLC

(***************************************************************************)
(* Bounds of the explored inputs.                                          *)
(***************************************************************************)
\* longest token stream handed to normalise_token_stream
MaxTokens == 3
\* most path segments of a URL handed to uri_match
MaxSegs == 2
\* most spaces between a link text and the "<" behind it
MaxPad == 2
\* most punctuation characters right behind a URL
MaxPunct == 1
\* most URLs handed to one call of _do_reverse_lookup
MaxUrls == 2
\* most lines of a file
MaxLines == 2

\* most files of a directory
MaxFiles == 2

(***************************************************************************)
(* str primitives.                                                         *)
(***************************************************************************)
\* s[a:b] of Python with 0 <= a, in 0-based half-open indices
Slice(s, a, b) ==
    IF b <= a THEN <<>> ELSE SubSeq(s, a + 1, IF b > Len(s) THEN Len(s) ELSE b)

\* s.startswith(p) with the comparison started at 0-based offset i
StartsWithAt(s, i, p) ==
    /\ i + Len(p) <= Len(s)
    /\ \A k \in 1..Len(p) : s[i + k] = p[k]

StartsWith(s, p) == StartsWithAt(s, 0, p)

EndsWith(s, p) == Len(p) <= Len(s) /\ StartsWithAt(s, Len(s) - Len(p), p)

(***************************************************************************)
(* Tokens: Unchanged, Removed and Added are str subclasses; a token is     *)
(* its class and its payload.                                              *)
(***************************************************************************)
TokenKinds == {"Unchanged", "Removed", "Added"}

Unchanged(s) == [kind |-> "Unchanged", text |-> s]
Removed(s) == [kind |-> "Removed", text |-> s]
Added(s) == [kind |-> "Added", text |-> s]

\* the loop of normalise_token_stream from token i on; ctype = "None" is
\* current_type None
RECURSIVE NormaliseLoop(_, _, _, _, _)
NormaliseLoop(tokens, i, normalized, ctype, ccontent) ==
    IF i > Len(tokens)
    THEN IF ctype # "None"
         THEN Append(normalized, [kind |-> ctype, text |-> ccontent])
         ELSE normalized
    ELSE LET token == tokens[i] IN
         IF token.text = <<>>
         THEN NormaliseLoop(tokens, i + 1, normalized, ctype, ccontent)
         ELSE IF token.kind = ctype
         THEN NormaliseLoop(tokens, i + 1, normalized, ctype,
                            ccontent \o token.text)
         ELSE NormaliseLoop(tokens, i + 1,
                            IF ctype # "None"
                            THEN Append(normalized,
                                        [kind |-> ctype, text |-> ccontent])
                            ELSE normalized,
                            token.kind, token.text)

\* mutant loop: the empty-payload test comes after the kind comparison, so
\* an empty token of another kind closes the current run
RECURSIVE NormaliseLoopLateSkip(_, _, _, _, _)
NormaliseLoopLateSkip(tokens, i, normalized, ctype, ccontent) ==
    IF i > Len(tokens)
    THEN IF ctype # "None" /\ ccontent # <<>>
         THEN Append(normalized, [kind |-> ctype, text |-> ccontent])
         ELSE normalized
    ELSE LET token == tokens[i] IN
         IF token.kind = ctype
         THEN NormaliseLoopLateSkip(tokens, i + 1, normalized, ctype,
                                    ccontent \o token.text)
         ELSE NormaliseLoopLateSkip(tokens, i + 1,
                                    IF ctype # "None" /\ ccontent # <<>>
                                    THEN Append(normalized,
                                           [kind |-> ctype, text |-> ccontent])
                                    ELSE normalized,
                                    token.kind, token.text)

normalise_token_stream_late_skip(tokens) ==
    IF tokens = <<>>
    THEN <<Unchanged(<<>>)>>
    ELSE LET normalized == NormaliseLoopLateSkip(tokens, 1, <<>>, "None", <<>>)
         IN IF normalized = <<>> THEN <<Unchanged(<<>>)>> ELSE normalized

\* mutant loop: a same-kind token overwrites the run's content instead of
\* extending it
RECURSIVE NormaliseLoopOverwrite(_, _, _, _, _)
NormaliseLoopOverwrite(tokens, i, normalized, ctype, ccontent) ==
    IF i > Len(tokens)
    THEN IF ctype # "None"
         THEN Append(normalized, [kind |-> ctype, text |-> ccontent])
         ELSE normalized
    ELSE LET token == tokens[i] IN
         IF token.text = <<>>
         THEN NormaliseLoopOverwrite(tokens, i + 1, normalized, ctype, ccontent)
         ELSE IF token.kind = ctype
         THEN NormaliseLoopOverwrite(tokens, i + 1, normalized, ctype,
                                     token.text)
         ELSE NormaliseLoopOverwrite(tokens, i + 1,
                                     IF ctype # "None"
                                     THEN Append(normalized,
                                            [kind |-> ctype, text |-> ccontent])
                                     ELSE normalized,
                                     token.kind, token.text)

normalise_token_stream_overwrite(tokens) ==
    IF tokens = <<>>
    THEN <<Unchanged(<<>>)>>
    ELSE LET normalized == NormaliseLoopOverwrite(tokens, 1, <<>>, "None", <<>>)
         IN IF normalized = <<>> THEN <<Unchanged(<<>>)>> ELSE normalized

\* mutant: the final "if not normalized" placeholder is missing
normalise_token_stream_no_placeholder(tokens) ==
    IF tokens = <<>>
    THEN <<Unchanged(<<>>)>>
    ELSE NormaliseLoop(tokens, 1, <<>>, "None", <<>>)

normalise_token_stream(tokens) ==
    IF tokens = <<>>
    THEN <<Unchanged(<<>>)>>
    ELSE LET normalized == NormaliseLoop(tokens, 1, <<>>, "None", <<>>)
         IN IF normalized = <<>> THEN <<Unchanged(<<>>)>> ELSE normalized

(***************************************************************************)
(* More str primitives, used by the URL matcher and the pattern matchers.  *)
(***************************************************************************)
\* the backtick, which a TLA+ string cannot hold
BT == "backtick"

\* the character at 0-based offset i, "" past the end
CharAt(s, i) == IF i >= 0 /\ i < Len(s) THEN s[i + 1] ELSE ""

\* s.rstrip(chars)
RECURSIVE RStrip(_, _)
RStrip(s, chars) ==
    IF s # <<>> /\ s[Len(s)] \in chars
    THEN RStrip(SubSeq(s, 1, Len(s) - 1), chars)
    ELSE s

\* s.lstrip(chars)
RECURSIVE LStrip(_, _)
LStrip(s, chars) ==
    IF s # <<>> /\ Head(s) \in chars THEN LStrip(Tail(s), chars) ELSE s

\* s[i:].replace(old, new): every non-overlapping occurrence, left to right
RECURSIVE ReplaceFrom(_, _, _, _)
ReplaceFrom(s, i, old, new) ==
    IF i >= Len(s)
    THEN <<>>
    ELSE IF StartsWithAt(s, i, old)
    THEN new \o ReplaceFrom(s, i + Len(old), old, new)
    ELSE <<s[i + 1]>> \o ReplaceFrom(s, i + 1, old, new)

\* s.replace(old, new), old non-empty
Replace(s, old, new) == ReplaceFrom(s, 0, old, new)

(***************************************************************************)
(* reverse_lookup.py: _normalize_url_for_matching and uri_match.           *)
(***************************************************************************)
Digits == {"0", "1", "2", "3", "4", "5", "6", "7", "8", "9"}

\* the alternatives of (latest|stable|main|dev|master), in pattern order
VersionNames ==
    << <<"l", "a", "t", "e", "s", "t">>,
       <<"s", "t", "a", "b", "l", "e">>,
       <<"m", "a", "i", "n">>,
       <<"d", "e", "v">>,
       <<"m", "a", "s", "t", "e", "r">> >>

\* the replacement text "/_VERSION_/"
VersionPlaceholder ==
    <<"/", "_", "V", "E", "R", "S", "I", "O", "N", "_", "/">>

IndexHtml == <<"i", "n", "d", "e", "x", ".", "h", "t", "m", "l">>

SlashIndexHtml == <<"/">> \o IndexHtml

\* end offset of a match of /(latest|stable|main|dev|master)/ starting at
\* offset i, or -1
NameMatchEnd(s, i) ==
    IF CharAt(s, i) # "/"
    THEN -1
    ELSE
    LET hits == {n \in 1..Len(VersionNames) :
                    StartsWithAt(s, i, <<"/">> \o VersionNames[n] \o <<"/">>)}
    IN IF hits = {}
       THEN -1
       ELSE LET n == CHOOSE m \in hits : \A k \in hits : m <= k
            IN i + Len(VersionNames[n]) + 2

\* end offset of \d* matched greedily from offset j
RECURSIVE DigitsEnd(_, _)
DigitsEnd(s, j) ==
    IF CharAt(s, j) \in Digits THEN DigitsEnd(s, j + 1) ELSE j

\* end offset of (\.\d+)* matched greedily from offset j
RECURSIVE DotDigitsEnd(_, _)
DotDigitsEnd(s, j) ==
    IF CharAt(s, j) = "." /\ CharAt(s, j + 1) \in Digits
    THEN DotDigitsEnd(s, DigitsEnd(s, j + 1))
    ELSE j

\* end offset of a match of /v?\d+(\.\d+)*/ starting at offset i, or -1;
\* the character after the version must be "/", which no part of the
\* version can match, so the greedy match is the only candidate
NumberMatchEnd(s, i) ==
    IF CharAt(s, i) # "/"
    THEN -1
    ELSE LET j == IF CharAt(s, i + 1) = "v" THEN i + 2 ELSE i + 1
             d == DigitsEnd(s, j)
             e == DotDigitsEnd(s, d)
         IN IF d > j /\ CharAt(s, e) = "/" THEN e + 1 ELSE -1

\* re.sub(r"/(latest|stable|main|dev|master)/", "/_VERSION_/", s[i:]):
\* leftmost matches, the scan resuming after each match
RECURSIVE SubNames(_, _)
SubNames(s, i) ==
    IF i >= Len(s)
    THEN <<>>
    ELSE LET e == NameMatchEnd(s, i)
         IN IF e # -1
            THEN VersionPlaceholder \o SubNames(s, e)
            ELSE <<s[i + 1]>> \o SubNames(s, i + 1)

\* re.sub(r"/v?\d+(\.\d+)*/", "/_VERSION_/", s[i:])
RECURSIVE SubNumbers(_, _)
SubNumbers(s, i) ==
    IF i >= Len(s)
    THEN <<>>
    ELSE LET e == NumberMatchEnd(s, i)
         IN IF e # -1
            THEN VersionPlaceholder \o SubNumbers(s, e)
            ELSE <<s[i + 1]>> \o SubNumbers(s, i + 1)

_normalize_url_for_matching(url) == SubNumbers(SubNames(url, 0), 0)

\* _normalize_url_for_matching(u).rstrip("/").replace("/index.html", "")
NormalizedForCompare(u) ==
    Replace(RStrip(_normalize_url_for_matching(u), {"/"}), SlashIndexHtml, <<>>)

\* the list variants of uri_match
Variants(user_url) ==
    <<user_url,
      IF EndsWith(user_url, SlashIndexHtml)
      THEN Slice(user_url, 0, Len(user_url) - 10)
      ELSE IF EndsWith(user_url, <<"/">>)
      THEN user_url \o IndexHtml
      ELSE user_url \o SlashIndexHtml>>

uri_match(user_url, inv_url) ==
    IF user_url = inv_url
    THEN TRUE
    ELSE LET variants == Variants(user_url)
         IN IF \E k \in 1..Len(variants) : variants[k] = inv_url
            THEN TRUE
            ELSE LET inv_url_normalized == NormalizedForCompare(inv_url)
                 IN \E k \in 1..Len(variants) :
                       NormalizedForCompare(variants[k]) = inv_url_normalized

(***************************************************************************)
(* rev_search.py: the regular expressions of the pattern matchers.  A      *)
(* match is a record of 0-based offsets, or NoMatch.                       *)
(***************************************************************************)
NoMatch == [start |-> -1, end |-> -1]

\* the character class [.,;:!?)]
TrailingPunctuation == {".", ",", ";", ":", "!", "?", ")"}

\* the whitespace of \s and of str.strip() that the explored lines hold
WhiteSpace == {" ", "\t"}

\* s.strip()
Strip(s) == LStrip(RStrip(s, WhiteSpace), WhiteSpace)

\* end offset of [.,;:!?)]* matched greedily from offset j
RECURSIVE PunctEnd(_, _)
PunctEnd(s, j) ==
    IF CharAt(s, j) \in TrailingPunctuation THEN PunctEnd(s, j + 1) ELSE j

\* end offset of a match of "<" url "[.,;:!?)]*>" starting at offset i, or
\* -1; ">" is no punctuation, so only the greedy run can be followed by it
AngleUrlEnd(s, i, url) ==
    IF CharAt(s, i) = "<" /\ StartsWithAt(s, i + 1, url)
    THEN LET e == PunctEnd(s, i + 1 + Len(url))
         IN IF CharAt(s, e) = ">" THEN e + 1 ELSE -1
    ELSE -1

\* mutant: the pattern ends in "`_", a second underscore is left in the line
LinkCloseEnd_one_underscore(s, j) ==
    IF CharAt(s, j) = BT /\ CharAt(s, j + 1) = "_" THEN j + 2 ELSE -1

\* end offset of a match of "`__?" starting at offset j, or -1
LinkCloseEnd(s, j) ==
    IF CharAt(s, j) = BT /\ CharAt(s, j + 1) = "_"
    THEN IF CharAt(s, j + 2) = "_" THEN j + 3 ELSE j + 2
    ELSE -1

\* end offset of [^`<>]* matched greedily from offset j
RECURSIVE LinkTextEnd(_, _)
LinkTextEnd(s, j) ==
    IF j < Len(s) /\ CharAt(s, j) \notin {BT, "<", ">"}
    THEN LinkTextEnd(s, j + 1)
    ELSE j

\* end offset of a match of "`([^`<>]+)\s*<" url "[.,;:!?)]*>`__?" starting
\* at offset i, or -1.  The group takes every character up to the next
\* backtick or angle bracket, whitespace included, so \s* matches nothing;
\* a shorter group leaves the "<" where it is and cannot succeed where the
\* greedy one fails.
FullLinkEnd(s, i, url) ==
    IF CharAt(s, i) # BT
    THEN -1
    ELSE LET g == LinkTextEnd(s, i + 1)
             a == AngleUrlEnd(s, g, url)
         IN IF g > i + 1 /\ a # -1 THEN LinkCloseEnd(s, a) ELSE -1

\* end offset of a match of "`?<" url "[.,;:!?)]*>`__?" starting at offset i,
\* or -1
SimpleLinkEnd(s, i, url) ==
    LET a == IF CharAt(s, i) = BT
             THEN AngleUrlEnd(s, i + 1, url)
             ELSE AngleUrlEnd(s, i, url)
    IN IF a # -1 THEN LinkCloseEnd(s, a) ELSE -1

\* end offset of a match of url "[.,;:!?)]*" starting at offset i, or -1
PlainUrlEnd(s, i, url) ==
    IF StartsWithAt(s, i, url) THEN PunctEnd(s, i + Len(url)) ELSE -1

\* end offset of a match of "`([^`]+)$" starting at offset i, or -1, in a
\* string without line breaks
OpenLinkTextEnd(s, i) ==
    IF /\ CharAt(s, i) = BT
       /\ i + 1 < Len(s)
       /\ \A k \in (i + 2)..Len(s) : s[k] # BT
    THEN Len(s)
    ELSE -1

\* re.search: the match at the least start offset
SearchFull(s, url) ==
    LET starts == {i \in 0..Len(s) : FullLinkEnd(s, i, url) # -1}
    IN IF starts = {}
       THEN NoMatch
       ELSE LET i == CHOOSE m \in starts : \A k \in starts : m <= k
            IN [start |-> i, end |-> FullLinkEnd(s, i, url)]

SearchSimple(s, url) ==
    LET starts == {i \in 0..Len(s) : SimpleLinkEnd(s, i, url) # -1}
    IN IF starts = {}
       THEN NoMatch
       ELSE LET i == CHOOSE m \in starts : \A k \in starts : m <= k
            IN [start |-> i, end |-> SimpleLinkEnd(s, i, url)]

SearchAngleUrl(s, url) ==
    LET starts == {i \in 0..Len(s) : AngleUrlEnd(s, i, url) # -1}
    IN IF starts = {}
       THEN NoMatch
       ELSE LET i == CHOOSE m \in starts : \A k \in starts : m <= k
            IN [start |-> i, end |-> AngleUrlEnd(s, i, url)]

SearchPlainUrl(s, url) ==
    LET starts == {i \in 0..Len(s) : PlainUrlEnd(s, i, url) # -1}
    IN IF starts = {}
       THEN NoMatch
       ELSE LET i == CHOOSE m \in starts : \A k \in starts : m <= k
            IN [start |-> i, end |-> PlainUrlEnd(s, i, url)]

SearchOpenLinkText(s) ==
    LET starts == {i \in 0..Len(s) : OpenLinkTextEnd(s, i) # -1}
    IN IF starts = {}
       THEN NoMatch
       ELSE LET i == CHOOSE m \in starts : \A k \in starts : m <= k
            IN [start |-> i, end |-> OpenLinkTextEnd(s, i)]

(***************************************************************************)
(* rev_search.py: building the replacement.  A replacement is the pair     *)
(* (context_old, context_new), each a triple of token streams.             *)
(***************************************************************************)
\* the list [x] when the condition holds, [] otherwise
Opt(cond, x) == IF cond THEN <<x>> ELSE <<>>

\* mutant: the sides are exchanged, the new text on the old side
_make_line_tokens_sides_exchanged(line, start, end, old_text, new_text) ==
    [old |-> Opt(start > 0, Unchanged(Slice(line, 0, start)))
             \o <<Added(new_text)>>
             \o Opt(end < Len(line), Unchanged(Slice(line, end, Len(line)))),
     new |-> Opt(start > 0, Unchanged(Slice(line, 0, start)))
             \o <<Removed(old_text)>>
             \o Opt(end < Len(line), Unchanged(Slice(line, end, Len(line))))]

\* mutant: the suffix starts one character late
_make_line_tokens_late_suffix(line, start, end, old_text, new_text) ==
    [old |-> Opt(start > 0, Unchanged(Slice(line, 0, start)))
             \o <<Removed(old_text)>>
             \o Opt(end < Len(line),
                    Unchanged(Slice(line, end + 1, Len(line)))),
     new |-> Opt(start > 0, Unchanged(Slice(line, 0, start)))
             \o <<Added(new_text)>>
             \o Opt(end < Len(line),
                    Unchanged(Slice(line, end + 1, Len(line))))]

_make_line_tokens(line, start, end, old_text, new_text) ==
    [old |-> Opt(start > 0, Unchanged(Slice(line, 0, start)))
             \o <<Removed(old_text)>>
             \o Opt(end < Len(line), Unchanged(Slice(line, end, Len(line)))),
     new |-> Opt(start > 0, Unchanged(Slice(line, 0, start)))
             \o <<Added(new_text)>>
             \o Opt(end < Len(line), Unchanged(Slice(line, end, Len(line))))]

_normalize_replacement(context_old, context_new) ==
    [old |-> <<normalise_token_stream(context_old[1]),
               normalise_token_stream(context_old[2]),
               normalise_token_stream(context_old[3])>>,
     new |-> <<normalise_token_stream(context_new[1]),
               normalise_token_stream(context_new[2]),
               normalise_token_stream(context_new[3])>>]

_make_replacement(context_before, context_after, target_tokens_old, target_tokens_new) ==
    _normalize_replacement(
        <<<<Unchanged(context_before)>>, target_tokens_old,
          <<Unchanged(context_after)>>>>,
        <<<<Unchanged(context_before)>>, target_tokens_new,
          <<Unchanged(context_after)>>>>)

\* the return value None
None == [old |-> <<>>, new |-> <<>>]

\* the old tokens of the matched link text; url_match_in_link is the match
\* of "<url>" in it
FullLinkOldTokens(original_text, url_match_in_link) ==
    LET url_start == url_match_in_link.start
        url_end == url_match_in_link.end
        after_angle == Slice(original_text, url_end, Len(original_text))
    IN IF url_match_in_link # NoMatch
       THEN <<Unchanged(Slice(original_text, 0, url_start + 1)),
              Removed(Slice(original_text, url_start + 1, url_end - 1)),
              Unchanged(Slice(original_text, url_end - 1, url_end))>>
            \o (IF StartsWith(after_angle, <<BT>>)
                THEN <<Unchanged(<<after_angle[1]>>)>>
                     \o Opt(Len(after_angle) > 1, Removed(Tail(after_angle)))
                ELSE <<Removed(after_angle)>>)
       ELSE <<Removed(original_text)>>

\* the new tokens of the matched link text
FullLinkNewTokens(original_text, url_match_in_link, domain_prefix, link_text, target) ==
    LET url_start == url_match_in_link.start
        space_before ==
            IF url_start > 0 /\ CharAt(original_text, url_start - 1) = " "
            THEN <<" ">>
            ELSE <<>>
    IN IF url_match_in_link # NoMatch
       THEN <<Added(domain_prefix),
              Unchanged(<<BT>> \o link_text \o space_before \o <<"<">>),
              Added(target),
              Unchanged(<<">", BT>>)>>
       ELSE <<Added(domain_prefix),
              Unchanged(<<BT>> \o link_text),
              Added(<<" ", "<">> \o target \o <<">", BT>>)>>

\* the replacement of the full link matched at start_idx..end_idx
FullLinkReplacement(original_line, context_before_str, context_after_str, lookup_result, target, start_idx, end_idx, original_text) ==
    LET \* group(1): from behind the backtick up to the "<"
        group1 == Slice(original_line, start_idx + 1,
                        LinkTextEnd(original_line, start_idx + 1))
        link_text == Strip(group1)
        domain_prefix == <<":">> \o lookup_result.domain \o <<":">>
        prefix == Opt(start_idx > 0, Unchanged(Slice(original_line, 0, start_idx)))
        suffix == Opt(end_idx < Len(original_line),
                      Unchanged(Slice(original_line, end_idx, Len(original_line))))
    IN _make_replacement(
           context_before_str, context_after_str,
           prefix
           \o FullLinkOldTokens(
                  original_text,
                  SearchAngleUrl(original_text, lookup_result.url))
           \o suffix,
           prefix
           \o FullLinkNewTokens(
                  original_text,
                  SearchAngleUrl(original_text, lookup_result.url),
                  domain_prefix, link_text, target)
           \o suffix)

_compute_full_link_replacement(original_line, context_before_str, context_after_str, lookup_result, target) ==
    LET full_link_match == SearchFull(original_line, lookup_result.url)
    IN IF full_link_match = NoMatch
       THEN None
       ELSE FullLinkReplacement(
                original_line, context_before_str, context_after_str,
                lookup_result, target,
                full_link_match.start, full_link_match.end,
                Slice(original_line, full_link_match.start,
                      full_link_match.end))

_compute_simple_link_replacement(original_line, context_before_str, context_after_str, lookup_result, target, rst_ref) ==
    LET simple_link_match == SearchSimple(original_line, lookup_result.url)
        start_idx == simple_link_match.start
        end_idx == simple_link_match.end
        original_text == Slice(original_line, start_idx, end_idx)
        link_text_match == SearchOpenLinkText(context_before_str)
        \* group(1): everything behind the backtick
        link_text == Strip(Slice(context_before_str, link_text_match.start + 1,
                                 link_text_match.end))
        ctx == _make_line_tokens(
                   context_before_str, link_text_match.start,
                   link_text_match.end,
                   Slice(context_before_str, link_text_match.start,
                         link_text_match.end),
                   <<":">> \o lookup_result.domain \o <<":", BT>> \o link_text)
        tgt == _make_line_tokens(original_line, start_idx, end_idx,
                                 original_text,
                                 <<"<">> \o target \o <<">", BT>>)
        ctx_after == <<Unchanged(context_after_str)>>
        same_line == _make_line_tokens(original_line, start_idx, end_idx,
                                       original_text, rst_ref)
    IN IF simple_link_match = NoMatch
       THEN None
       ELSE IF link_text_match # NoMatch
       THEN _normalize_replacement(<<ctx.old, tgt.old, ctx_after>>,
                                   <<ctx.new, tgt.new, ctx_after>>)
       ELSE _make_replacement(context_before_str, context_after_str,
                              same_line.old, same_line.new)

_compute_url_replacement(original_line, context_before_str, context_after_str, lookup_result, rst_ref) ==
    LET url_match == SearchPlainUrl(original_line, lookup_result.url)
        found == _make_line_tokens(original_line, url_match.start,
                                   url_match.end, lookup_result.url, rst_ref)
    IN IF url_match # NoMatch
       THEN _make_replacement(context_before_str, context_after_str,
                              found.old, found.new)
       ELSE _make_replacement(context_before_str, context_after_str,
                              <<Removed(original_line)>>, <<Added(rst_ref)>>)

\* mutant: the bare-link strategy is asked before the full-link strategy
FirstReplacement_bare_first(full, simple, plain) ==
    IF simple # None
    THEN simple
    ELSE IF full # None
    THEN full
    ELSE plain

\* the first strategy whose result is not None; the plain-URL strategy
\* always produces a result
FirstReplacement(full, simple, plain) ==
    IF full # None
    THEN full
    ELSE IF simple # None
    THEN simple
    ELSE plain

_compute_replacement(original, lookup_result) ==
    LET target == lookup_result.package \o <<":">> \o lookup_result.rst_entry
        rst_ref == <<":">> \o lookup_result.domain \o <<":", BT>> \o target
                   \o <<BT>>
    IN FirstReplacement(
           _compute_full_link_replacement(
               original.target_line, original.context_before,
               original.context_after, lookup_result, target),
           _compute_simple_link_replacement(
               original.target_line, original.context_before,
               original.context_after, lookup_result, target, rst_ref),
           _compute_url_replacement(
               original.target_line, original.context_before,
               original.context_after, lookup_result, rst_ref))

(***************************************************************************)
(* Reading a token stream back.                                            *)
(***************************************************************************)
\* "".join(stream)
RECURSIVE Payload(_)
Payload(stream) ==
    IF stream = <<>> THEN <<>> ELSE Head(stream).text \o Payload(Tail(stream))

\* the characters of a stream, each with the kind of the token holding it
RECURSIVE KindedChars(_)
KindedChars(stream) ==
    IF stream = <<>>
    THEN <<>>
    ELSE LET t == Head(stream)
         IN [k \in 1..Len(t.text) |-> <<t.kind, t.text[k]>>]
            \o KindedChars(Tail(stream))

\* "".join(t for t in stream if isinstance(t, Unchanged))
RECURSIVE UnchangedPayload(_)
UnchangedPayload(stream) ==
    IF stream = <<>>
    THEN <<>>
    ELSE (IF Head(stream).kind = "Unchanged" THEN Head(stream).text ELSE <<>>)
         \o UnchangedPayload(Tail(stream))

(***************************************************************************)
(* reverse_lookup.py: _do_reverse_lookup.  The registry is a sequence of   *)
(* [package, base_url] in the order of registry.json, package_urls and     *)
(* inv_urls are dicts kept as sequences in insertion order.                *)
(***************************************************************************)
\* the None of Python in a field that otherwise holds a str
PyNone == <<"None">>

\* s.find of any character of chars from offset i on, Len(s) when none
RECURSIVE FindAny(_, _, _)
FindAny(s, i, chars) ==
    IF i >= Len(s)
    THEN Len(s)
    ELSE IF s[i + 1] \in chars THEN i ELSE FindAny(s, i + 1, chars)

\* s.rfind("/"), -1 when none
RECURSIVE RFindSlash(_, _)
RFindSlash(s, i) ==
    IF i < 0 THEN -1 ELSE IF s[i + 1] = "/" THEN i ELSE RFindSlash(s, i - 1)

\* urlparse(url), the netloc and path of it, for a URL with a scheme: the
\* netloc is what follows "//" up to "/", "?" or "#", the path what follows
\* up to "?" or "#", without the parameters behind a ";" of its last segment
urlparse(url) ==
    LET colon == FindAny(url, 0, {":"})
        has_netloc == StartsWithAt(url, colon + 1, <<"/", "/">>)
        netloc_end == IF has_netloc
                      THEN FindAny(url, colon + 3, {"/", "?", "#"})
                      ELSE colon + 1
        path_end == FindAny(url, netloc_end, {"?", "#"})
        path == Slice(url, netloc_end, path_end)
        last_slash == RFindSlash(path, Len(path) - 1)
        semicolon == FindAny(path, IF last_slash < 0 THEN 0 ELSE last_slash,
                             {";"})
    IN [netloc |-> IF has_netloc
                   THEN Slice(url, colon + 3, netloc_end)
                   ELSE <<>>,
        path |-> Slice(path, 0, semicolon)]

\* the for loop of lines 103-107: the position of the first package at or
\* behind position i whose base URL url_str starts with, 0 when none
RECURSIVE FirstPrefix(_, _, _)
FirstPrefix(registry, url_str, i) ==
    IF i > Len(registry)
    THEN 0
    ELSE IF StartsWith(url_str, registry[i].base_url)
    THEN i
    ELSE FirstPrefix(registry, url_str, i + 1)

\* the paths are compared whatever the network locations
SameDomainAndPath_any_domain(url_str, base_url) ==
    LET url_path_normalized == NormalizedForCompare(urlparse(url_str).path)
        base_path_normalized ==
            RStrip(_normalize_url_for_matching(urlparse(base_url).path), {"/"})
    IN \/ StartsWith(url_path_normalized, base_path_normalized)
       \/ StartsWith(base_path_normalized, url_path_normalized)

\* the test of lines 118-125 for one package
SameDomainAndPath(url_str, base_url) ==
    LET url_domain == urlparse(url_str).netloc
        url_path_normalized == NormalizedForCompare(urlparse(url_str).path)
        base_domain == urlparse(base_url).netloc
        base_path_normalized ==
            RStrip(_normalize_url_for_matching(urlparse(base_url).path), {"/"})
    IN /\ url_domain = base_domain
       /\ \/ StartsWith(url_path_normalized, base_path_normalized)
          \/ StartsWith(base_path_normalized, url_path_normalized)

\* the for loop of lines 117-127
RECURSIVE FirstSameDomain(_, _, _)
FirstSameDomain(registry, url_str, i) ==
    IF i > Len(registry)
    THEN 0
    ELSE IF SameDomainAndPath(url_str, registry[i].base_url)
    THEN i
    ELSE FirstSameDomain(registry, url_str, i + 1)

\* a pass that takes the first package matching either way
MatchedPackage_one_pass(registry, url_str) ==
    LET hits == {i \in 1..Len(registry) :
                    \/ StartsWith(url_str, registry[i].base_url)
                    \/ SameDomainAndPath(url_str, registry[i].base_url)}
    IN IF hits = {} THEN 0 ELSE CHOOSE i \in hits : \A j \in hits : i <= j

\* the body of the loop of line 101: the position in the registry of the
\* package url_str is put under, 0 when under none
MatchedPackage(registry, url_str) ==
    LET matched_at == FirstPrefix(registry, url_str, 1)
    IN IF matched_at # 0
       THEN matched_at
       ELSE FirstSameDomain(registry, url_str, 1)

\* every URL opens a group of its own
SetDefaultAppend_no_setdefault(package_urls, package, url_str) ==
    Append(package_urls, [package |-> package, urls |-> <<url_str>>])

\* package_urls.setdefault(package, []).append(url_str)
SetDefaultAppend(package_urls, package, url_str) ==
    IF \E k \in 1..Len(package_urls) : package_urls[k].package = package
    THEN [k \in 1..Len(package_urls) |->
             IF package_urls[k].package = package
             THEN [package_urls[k] EXCEPT !.urls = Append(@, url_str)]
             ELSE package_urls[k]]
    ELSE Append(package_urls, [package |-> package, urls |-> <<url_str>>])

\* lines 99-127 from the i-th URL on
RECURSIVE GroupByPackage(_, _, _, _)
GroupByPackage(registry, urls, i, package_urls) ==
    IF i > Len(urls)
    THEN package_urls
    ELSE LET at == MatchedPackage(registry, urls[i])
         IN GroupByPackage(registry, urls, i + 1,
                IF at = 0
                THEN package_urls
                ELSE SetDefaultAppend(package_urls, registry[at].package,
                                      urls[i]))

\* inv_urls[uri] = (key, entry, display_name): a new URI goes to the end, a
\* known one keeps its place and takes the new value
SetInvUrl(inv_urls, e) ==
    IF \E k \in 1..Len(inv_urls) : inv_urls[k].uri = e.uri
    THEN [k \in 1..Len(inv_urls) |->
             IF inv_urls[k].uri = e.uri THEN e ELSE inv_urls[k]]
    ELSE Append(inv_urls, e)

\* lines 151-154 from the i-th entry of the inventory on
RECURSIVE FlattenInventory(_, _, _)
FlattenInventory(inv, i, inv_urls) ==
    IF i > Len(inv)
    THEN inv_urls
    ELSE FlattenInventory(inv, i + 1, SetInvUrl(inv_urls, inv[i]))

\* the for loop of lines 158-168: the position of the first URI at or
\* behind position i that matches url_str, 0 when none
RECURSIVE FirstUriMatch(_, _, _)
FirstUriMatch(url_str, inv_urls, i) ==
    IF i > Len(inv_urls)
    THEN 0
    ELSE IF uri_match(url_str, inv_urls[i].uri)
    THEN i
    ELSE FirstUriMatch(url_str, inv_urls, i + 1)

\* mutant: the result without an entry names the URL as its inventory URL
PackageOnlyResult_with_inventory_url(url_str, package) ==
    [url |-> url_str, package |-> package, domain |-> PyNone,
     rst_entry |-> PyNone, display_name |-> PyNone, inventory_url |-> url_str]

\* lines 146-148 and 170-172: the result without an entry
PackageOnlyResult(url_str, package) ==
    [url |-> url_str, package |-> package, domain |-> PyNone,
     rst_entry |-> PyNone, display_name |-> PyNone, inventory_url |-> PyNone]

\* mutant: an entry whose URI equals the URL is preferred to an earlier
\* entry whose URI only matches it
ResultOfUrl_exact_first(url_str, package, inv_urls) ==
    LET exact == {k \in 1..Len(inv_urls) : inv_urls[k].uri = url_str}
        at == IF exact # {}
              THEN CHOOSE k \in exact : \A o \in exact : k <= o
              ELSE FirstUriMatch(url_str, inv_urls, 1)
    IN IF at # 0
       THEN [url |-> url_str, package |-> package,
             domain |-> inv_urls[at].key, rst_entry |-> inv_urls[at].entry,
             display_name |-> inv_urls[at].display_name,
             inventory_url |-> inv_urls[at].uri]
       ELSE PackageOnlyResult(url_str, package)

\* lines 157-172 for one URL
ResultOfUrl(url_str, package, inv_urls) ==
    LET at == FirstUriMatch(url_str, inv_urls, 1)
    IN IF at # 0
       THEN [url |-> url_str, package |-> package,
             domain |-> inv_urls[at].key, rst_entry |-> inv_urls[at].entry,
             display_name |-> inv_urls[at].display_name,
             inventory_url |-> inv_urls[at].uri]
       ELSE PackageOnlyResult(url_str, package)

\* lines 151-172: the results of the URLs of a package whose inventory
\* was loaded
FoundResults(package, url_list, inv) ==
    LET inv_urls == FlattenInventory(inv, 1, <<>>)
    IN [k \in 1..Len(url_list) |-> ResultOfUrl(url_list[k], package, inv_urls)]

\* only the first URL of the group gets a result
UnreachableResults_first_only(package, url_list) ==
    IF url_list = <<>>
    THEN <<>>
    ELSE <<PackageOnlyResult(url_list[1], package)>>

\* lines 145-148: the results of the URLs of a package whose inventory
\* could not be loaded
UnreachableResults(package, url_list) ==
    [k \in 1..Len(url_list) |-> PackageOnlyResult(url_list[k], package)]

(***************************************************************************)
(* rev_search.py: process_one_file.  all_lines holds every line of the     *)
(* file without its line end, which rstrip() drops and url_pattern never   *)
(* matches; url_locations is a dict kept as a sequence in insertion order. *)
(***************************************************************************)
HttpPrefix == <<"h", "t", "t", "p", ":", "/", "/">>

HttpsPrefix == <<"h", "t", "t", "p", "s", ":", "/", "/">>

\* the characters that the class [^\s<>"{}|\\^`\[\]] excludes
UrlStops ==
    WhiteSpace \cup {"<", ">", "\"", "{", "}", "|", "\\", "^", BT, "[", "]"}

\* end offset of [^\s<>"{}|\\^`\[\]]* matched greedily from offset j
RECURSIVE UrlCharsEnd(_, _)
UrlCharsEnd(s, j) ==
    IF j < Len(s) /\ s[j + 1] \notin UrlStops THEN UrlCharsEnd(s, j + 1) ELSE j

\* end offset of the match of url_pattern at offset i, -1 when none
UrlPatternEnd(s, i) ==
    LET body == IF StartsWithAt(s, i, HttpsPrefix)
                THEN i + Len(HttpsPrefix)
                ELSE IF StartsWithAt(s, i, HttpPrefix)
                THEN i + Len(HttpPrefix)
                ELSE -1
    IN IF body # -1 /\ UrlCharsEnd(s, body) > body
       THEN UrlCharsEnd(s, body)
       ELSE -1

\* url_pattern.findall(line) from offset i on
RECURSIVE FindAllUrls(_, _)
FindAllUrls(line, i) ==
    IF i >= Len(line)
    THEN <<>>
    ELSE LET e == UrlPatternEnd(line, i)
         IN IF e # -1
            THEN <<Slice(line, i, e)>> \o FindAllUrls(line, e)
            ELSE FindAllUrls(line, i + 1)

\* the location replaces the ones the URL had
AddLocation_overwrite(url_locations, url, location) ==
    IF \E k \in 1..Len(url_locations) : url_locations[k].url = url
    THEN [k \in 1..Len(url_locations) |->
             IF url_locations[k].url = url
             THEN [url_locations[k] EXCEPT !.locations = <<location>>]
             ELSE url_locations[k]]
    ELSE Append(url_locations, [url |-> url, locations |-> <<location>>])

\* url_locations.setdefault(url, []).append(location)
AddLocation(url_locations, url, location) ==
    IF \E k \in 1..Len(url_locations) : url_locations[k].url = url
    THEN [k \in 1..Len(url_locations) |->
             IF url_locations[k].url = url
             THEN [url_locations[k] EXCEPT !.locations = Append(@, location)]
             ELSE url_locations[k]]
    ELSE Append(url_locations, [url |-> url, locations |-> <<location>>])

\* lines 445-447 from the k-th URL found in the line on
RECURSIVE ScanLine(_, _, _, _, _)
ScanLine(found, k, line_num, line, url_locations) ==
    IF k > Len(found)
    THEN url_locations
    ELSE ScanLine(found, k + 1, line_num, line,
             AddLocation(url_locations, RStrip(found[k], TrailingPunctuation),
                         [line_num |-> line_num,
                          line |-> RStrip(line, WhiteSpace)]))

\* lines 443-447 from line line_num on
RECURSIVE ScanLines(_, _, _)
ScanLines(all_lines, line_num, url_locations) ==
    IF line_num > Len(all_lines)
    THEN url_locations
    ELSE ScanLines(all_lines, line_num + 1,
             ScanLine(FindAllUrls(all_lines[line_num], 0), 1, line_num,
                      all_lines[line_num], url_locations))

\* list(url_locations.keys())
Keys(url_locations) == [k \in 1..Len(url_locations) |-> url_locations[k].url]

\* url_locations[url]
LocationsOf(url_locations, url) ==
    LET k == CHOOSE j \in 1..Len(url_locations) : url_locations[j].url = url
    IN url_locations[k].locations

\* the line two behind the target
ContextAfterOf_skip_one(all_lines, line_num) ==
    IF line_num + 1 < Len(all_lines)
    THEN RStrip(all_lines[line_num + 2], WhiteSpace)
    ELSE <<>>

\* lines 469-471: all_lines[line_num].rstrip(), the line behind the target
ContextAfterOf(all_lines, line_num) ==
    IF line_num < Len(all_lines)
    THEN RStrip(all_lines[line_num + 1], WhiteSpace)
    ELSE <<>>

\* line 468: all_lines[line_num - 2].rstrip(), the line before the target
ContextBeforeOf(all_lines, line_num) ==
    IF line_num > 1 THEN RStrip(all_lines[line_num - 1], WhiteSpace) ELSE <<>>

\* lines 478-484 and 492-498: the UrlReplacement of one occurrence, given
\* its two contexts
UrlReplacement(location, lookup_result, contexts) ==
    [line_num |-> location.line_num,
     matched_url |-> lookup_result.url,
     context_old |-> contexts.old, context_new |-> contexts.new,
     inventory_url |-> lookup_result.inventory_url]

\* lines 487-491: both contexts of an occurrence without entry
EmptyContexts(context) ==
    LET empty_context == <<<<Unchanged(context.context_before)>>,
                           <<Unchanged(context.target_line)>>,
                           <<Unchanged(context.context_after)>>>>
    IN [old |-> empty_context, new |-> empty_context]

\* mutant: the line before the occurrence is taken as its target line
ContextOf_line_before(all_lines, location) ==
    [context_before |-> ContextBeforeOf(all_lines, location.line_num),
     target_line |-> ContextBeforeOf(all_lines, location.line_num),
     context_after |-> ContextAfterOf(all_lines, location.line_num)]

\* lines 468-476: ReplacementContext(context_before, original_line,
\* context_after) of an occurrence
ContextOf(all_lines, location) ==
    [context_before |-> ContextBeforeOf(all_lines, location.line_num),
     target_line |-> location.line,
     context_after |-> ContextAfterOf(all_lines, location.line_num)]

\* lines 457-467 from the i-th result on: the occurrences the two loops go
\* through, each with the result of its URL
RECURSIVE ReplaceableOccurrences(_, _, _)
ReplaceableOccurrences(url_locations, results, i) ==
    IF i > Len(results)
    THEN <<>>
    ELSE LET line_infos == LocationsOf(url_locations, results[i].url)
         IN (IF results[i].package # PyNone
             THEN [k \in 1..Len(line_infos) |->
                      [lookup_result |-> results[i],
                       location |-> line_infos[k]]]
             ELSE <<>>)
            \o ReplaceableOccurrences(url_locations, results, i + 1)

(***************************************************************************)
(* Explored inputs.                                                        *)
(***************************************************************************)
TokenPayloads == {<<>>, <<"a">>, <<"b">>}

TokenSet == [kind : TokenKinds, text : TokenPayloads]

RECURSIVE SeqsUpTo(_, _)
SeqsUpTo(S, n) ==
    IF n = 0
    THEN {<<>>}
    ELSE LET shorter == SeqsUpTo(S, n - 1)
         IN shorter \cup {Append(q, x) : q \in shorter, x \in S}

TokenStreams == SeqsUpTo(TokenSet, MaxTokens)

\* path segments: a named version, a numbered version, an ordinary name
\* and index.html
Segments ==
    { <<"s", "t", "a", "b", "l", "e">>,
      <<"v", "2", ".", "0">>,
      <<"x">>,
      IndexHtml }

\* "/" + seg for every segment, joined
RECURSIVE JoinPath(_)
JoinPath(segs) ==
    IF segs = <<>> THEN <<>> ELSE <<"/">> \o Head(segs) \o JoinPath(Tail(segs))

\* paths of at most MaxSegs segments, with and without a trailing slash
UrlSet ==
    {JoinPath(segs) \o slash :
        segs \in SeqsUpTo(Segments, MaxSegs), slash \in {<<>>, <<"/">>}}

\* the URL the lookup resolved, and the rest of the lookup result
TheUrl == <<"h", "t", "t", "p", ":", "/", "/", "u">>

LookupResult ==
    [url |-> TheUrl, package |-> <<"k">>, domain |-> <<"d">>,
     rst_entry |-> <<"e">>, display_name |-> <<"n">>, inventory_url |-> TheUrl]

\* c repeated n times
Rep(c, n) == [k \in 1..n |-> c]

\* link texts: nothing or a word, with spaces around it
LinkTexts ==
    {Rep(" ", l) \o core \o Rep(" ", r) :
        l \in 0..1, core \in {<<>>, <<"t">>}, r \in 0..MaxPad}

\* target lines: prefix, opening backtick, link text, "<", a URL, trailing
\* punctuation, the close of a link, suffix; every part may be missing
TargetLines ==
    {p \o o \o t \o lt \o u \o Rep(".", n) \o c \o x :
        p \in {<<>>, <<"p", " ">>, TheUrl \o <<" ">>},
        o \in {<<>>, <<BT>>},
        t \in LinkTexts,
        lt \in {<<>>, <<"<">>},
        u \in {TheUrl, <<"o">>},
        n \in 0..MaxPunct,
        c \in {<<>>, <<">", BT, "_">>, <<">", BT, "_", "_">>},
        x \in {<<>>, <<" ", "s">>, <<"_", "s">>}}

\* lines before the target: none, plain text, an open link text, a closed
\* literal followed by text
ContextsBefore ==
    {<<>>, <<"c">>, <<"c", " ", BT, "t", " ">>, <<BT, "a", BT, " ", "b">>}

ContextsAfter == {<<>>, <<"n">>}

Originals ==
    [context_before : ContextsBefore, target_line : TargetLines,
     context_after : ContextsAfter]

\* the registry: two packages of one host that differ in the version of
\* their base URL, and a package of another host
Registry ==
    << [package |-> <<"k">>, base_url |-> HttpPrefix \o <<"a", "/", "1", "/">>],
       [package |-> <<"m">>, base_url |-> HttpPrefix \o <<"a", "/", "2", "/">>],
       [package |-> <<"q">>, base_url |-> HttpPrefix \o <<"b", "/">>] >>

\* a URL under the base URL of k, one under the base URL of m, one under
\* no base URL but on the host of k and m, one under the base URL of q and
\* one on a host of no package
UrlOfK == HttpPrefix \o <<"a", "/", "1", "/", "x">>

UrlOfM == HttpPrefix \o <<"a", "/", "2", "/", "x">>

UrlNearK == HttpPrefix \o <<"a", "/", "3", "/", "x">>

UrlOfQ == HttpPrefix \o <<"b", "/", "y">>

UrlOfNone == HttpPrefix \o <<"c", "/", "z">>

LookupUrls == {UrlOfK, UrlOfM, UrlNearK, UrlOfQ, UrlOfNone}

\* the lists of URLs handed to _do_reverse_lookup, duplicates included
UrlLists == SeqsUpTo(LookupUrls, MaxUrls)

\* inventory entries, as inv.items() and v.items() hand them out: the key
\* of the domain, the name of the entry, its URI and its display name
EntryVersioned ==
    [key |-> <<"d">>, entry |-> <<"e">>, uri |-> UrlNearK,
     display_name |-> <<"n">>]

EntryExact ==
    [key |-> <<"d">>, entry |-> <<"f">>, uri |-> UrlOfK,
     display_name |-> <<"o">>]

EntrySameUri ==
    [key |-> <<"g">>, entry |-> <<"f">>, uri |-> UrlOfK,
     display_name |-> <<"r">>]

EntryIndex ==
    [key |-> <<"d">>, entry |-> <<"i">>, uri |-> UrlOfQ \o SlashIndexHtml,
     display_name |-> <<"-">>]

\* the inventories a fetch may load: an empty one, one whose first entry
\* matches by version and whose second matches exactly, one with two
\* entries of one URI, one whose entry matches by index.html
Inventories ==
    { <<>>,
      <<EntryVersioned, EntryExact>>,
      <<EntryExact, EntrySameUri>>,
      <<EntryIndex>> }

\* lines of a file: a URL in a sentence, in a full link, in the close of a
\* link opened on the line before, twice on a line, a URL of no package,
\* URLs of two packages on one line, and a line without a URL that
\* opens a link text
FileLines ==
    { <<"s", "e", "e", " ">> \o UrlOfK \o <<".">>,
      <<BT, "t", " ", "<">> \o UrlOfK \o <<">", BT, "_">>,
      <<"<">> \o UrlNearK \o <<">", BT, "_">>,
      UrlOfK \o <<" ">> \o UrlOfK,
      UrlOfNone,
      UrlOfK \o <<" ">> \o UrlOfQ,
      <<"c", " ", BT, "t", " ">> }

Files == SeqsUpTo(FileLines, MaxLines)

\* a registry.json in which m has the base URL of k
DuplicateBaseRegistry ==
    << [package |-> <<"k">>, base_url |-> HttpPrefix \o <<"a", "/", "1", "/">>],
       [package |-> <<"m">>, base_url |-> HttpPrefix \o <<"a", "/", "1", "/">>],
       [package |-> <<"q">>, base_url |-> HttpPrefix \o <<"b", "/">>] >>

Registries == {Registry, DuplicateBaseRegistry}

\* a file that opens and reads, and one that does not
RstFile(lines) == [readable |-> TRUE, lines |-> lines]

UnreadableFile(lines) == [readable |-> FALSE, lines |-> lines]

\* the .rst files of a directory: a file with a URL of k, a file without
\* URLs, and a file with a URL of k that cannot be read
DirectoryFiles ==
    { RstFile(<< <<"s", "e", "e", " ">> \o UrlOfK \o <<".">> >>),
      RstFile(<< <<"c", " ", BT, "t", " ">> >>),
      UnreadableFile(<< <<"s", "e", "e", " ">> \o UrlOfK \o <<".">> >>) }

Directories == SeqsUpTo(DirectoryFiles, MaxFiles)

\* the keyword arguments of a call of get_intersphinx_mapping: none, or
\* packages = a set of names, of the registry or not
PackageSets ==
    { {}, {<<"k">>}, {<<"k">>, <<"q">>}, {<<"-">>}, {<<"k">>, <<"-">>} }

Keywords ==
    {<<>>} \cup {<<[name |-> "packages", value |-> S]>> : S \in PackageSets}

(***************************************************************************)
(* __init__.py: get_intersphinx_mapping, and reading a file in             *)
(* process_one_file.                                                       *)
(***************************************************************************)
\* the names of the parameters of get_intersphinx_mapping (line 15): none
Parameters == {}

\* no exception
NoException == "None"

\* a call get_intersphinx_mapping(**keywords): a keyword that names no
\* parameter raises TypeError before the body runs; the body returns the
\* content of registry.json
get_intersphinx_mapping(registry_json, keywords) ==
    IF \A i \in 1..Len(keywords) : keywords[i].name \in Parameters
    THEN [raised |-> NoException, value |-> registry_json]
    ELSE [raised |-> "TypeError", value |-> <<>>]

\* lines 441-442: the lines of the file; all_lines stays [] when open or
\* readlines raises
ReadLines(rst_file) ==
    IF rst_file.readable THEN rst_file.lines ELSE <<>>

\* mutant: the exception of open or readlines is not caught
AfterScan_uncaught(rst_file, url_locations) ==
    IF ~rst_file.readable
    THEN "raise"
    ELSE IF url_locations = <<>>
    THEN "return"
    ELSE "lookup"

\* lines 448-452: return when reading raised and when no URL was found
AfterScan(rst_file, url_locations) ==
    IF ~rst_file.readable
    THEN "return"
    ELSE IF url_locations = <<>>
    THEN "return"
    ELSE "lookup"

(***************************************************************************)
(* State: one call of one of the functions; its arguments are fixed when   *)
(* the call is made and its result is set when it returns.  A call of      *)
(* _do_reverse_lookup passes through one step per inventory it fetches,    *)
(* and fetched and warned record what it asked of the network and what it  *)
(* warned about.  A call of rev_search goes through the files of the       *)
(* directory, each with a call of process_one_file, and searched records   *)
(* what each file gave.                                                    *)
(***************************************************************************)
VARIABLES call, pc, tokens, normalized, user_url, inv_url, matched,
          original, lookup_result, replacement,
          registry, urls, package_urls, fetched, warned, results, lookups,
          rst_file, all_lines, url_locations, records,
          dependencies, rst_files, searched,
          keywords, raised, mapping

lookupVars == <<registry, urls, package_urls, fetched, warned, results,
                lookups>>

fileVars == <<rst_file, all_lines, url_locations, records>>

dirVars == <<dependencies, rst_files, searched>>

mappingVars == <<keywords, raised, mapping>>

vars == <<call, pc, tokens, normalized, user_url, inv_url, matched,
          original, lookup_result, replacement, lookupVars, fileVars,
          dirVars, mappingVars>>

NoOriginal == [context_before |-> <<>>, target_line |-> <<>>,
               context_after |-> <<>>]

NoFile == RstFile(<<>>)

InitNormalise ==
    /\ call = "normalise_token_stream"
    /\ tokens \in TokenStreams
    /\ user_url = <<>>
    /\ inv_url = <<>>
    /\ original = NoOriginal

InitUriMatch ==
    /\ call = "uri_match"
    /\ tokens = <<>>
    /\ user_url \in UrlSet
    /\ inv_url \in UrlSet
    /\ original = NoOriginal

InitReplace ==
    /\ call = "_compute_replacement"
    /\ tokens = <<>>
    /\ user_url = <<>>
    /\ inv_url = <<>>
    /\ original \in Originals

InitReverseLookup ==
    /\ call = "_do_reverse_lookup"
    /\ tokens = <<>>
    /\ user_url = <<>>
    /\ inv_url = <<>>
    /\ original = NoOriginal
    /\ urls \in UrlLists
    /\ registry \in Registries
    /\ rst_file = NoFile
    /\ rst_files = <<>>
    /\ dependencies = TRUE
    /\ keywords = <<>>

InitProcessOneFile ==
    /\ call = "process_one_file"
    /\ tokens = <<>>
    /\ user_url = <<>>
    /\ inv_url = <<>>
    /\ original = NoOriginal
    /\ urls = <<>>
    /\ registry = Registry
    /\ rst_file \in {RstFile(lines) : lines \in Files}
                    \cup {UnreadableFile(lines) : lines \in Files}
    /\ rst_files = <<>>
    /\ dependencies = TRUE
    /\ keywords = <<>>

InitRevSearch ==
    /\ call = "rev_search"
    /\ tokens = <<>>
    /\ user_url = <<>>
    /\ inv_url = <<>>
    /\ original = NoOriginal
    /\ urls = <<>>
    /\ registry = Registry
    /\ rst_file = NoFile
    /\ rst_files \in Directories
    /\ dependencies \in BOOLEAN
    /\ keywords = <<>>

InitMapping ==
    /\ call = "get_intersphinx_mapping"
    /\ tokens = <<>>
    /\ user_url = <<>>
    /\ inv_url = <<>>
    /\ original = NoOriginal
    /\ urls = <<>>
    /\ registry \in Registries
    /\ rst_file = NoFile
    /\ rst_files = <<>>
    /\ dependencies = TRUE
    /\ keywords \in Keywords

\* the arguments of the single-step calls of rev_search.py and
\* reverse_lookup.py; the other functions are not called
InitNoLookup ==
    /\ urls = <<>>
    /\ registry = Registry
    /\ rst_file = NoFile
    /\ rst_files = <<>>
    /\ dependencies = TRUE
    /\ keywords = <<>>

Init ==
    /\ pc = "call"
    /\ normalized = <<>>
    /\ matched = FALSE
    /\ lookup_result = LookupResult
    /\ replacement = None
    /\ package_urls = <<>>
    /\ fetched = <<>>
    /\ warned = <<>>
    /\ results = <<>>
    /\ lookups = 0
    /\ all_lines = <<>>
    /\ url_locations = <<>>
    /\ records = <<>>
    /\ searched = <<>>
    /\ raised = NoException
    /\ mapping = <<>>
    /\ \/ InitNormalise /\ InitNoLookup
       \/ InitUriMatch /\ InitNoLookup
       \/ InitReplace /\ InitNoLookup
       \/ InitReverseLookup
       \/ InitProcessOneFile
       \/ InitRevSearch
       \/ InitMapping

\* a call of process_one_file, made as such or by search_one_file for a
\* file of rev_search
InProcessOneFile == call \in {"process_one_file", "rev_search"}

\* where process_one_file is when it is over: back at its caller
Over == IF call = "rev_search" THEN "searched" ELSE "return"

\* normalized = normalise_token_stream(tokens)
Normalise ==
    /\ call = "normalise_token_stream"
    /\ pc = "call"
    /\ normalized' = normalise_token_stream(tokens)
    /\ pc' = "return"
    /\ UNCHANGED <<call, tokens, user_url, inv_url, matched,
                   original, lookup_result, replacement>>
    /\ UNCHANGED <<lookupVars, fileVars, dirVars, mappingVars>>

\* matched = uri_match(user_url, inv_url)
UriMatch ==
    /\ call = "uri_match"
    /\ pc = "call"
    /\ matched' = uri_match(user_url, inv_url)
    /\ pc' = "return"
    /\ UNCHANGED <<call, tokens, normalized, user_url, inv_url,
                   original, lookup_result, replacement>>
    /\ UNCHANGED <<lookupVars, fileVars, dirVars, mappingVars>>

\* context_old, context_new = _compute_replacement(original, lookup_result),
\* called as such or by process_one_file at line 474
ComputeReplacement ==
    /\ \/ call = "_compute_replacement" /\ pc = "call"
       \/ InProcessOneFile /\ pc = "compute"
    /\ replacement' = _compute_replacement(original, lookup_result)
    /\ pc' = IF InProcessOneFile THEN "computed" ELSE "return"
    /\ UNCHANGED <<call, tokens, normalized, user_url, inv_url, matched,
                   original, lookup_result>>
    /\ UNCHANGED <<lookupVars, fileVars, dirVars, mappingVars>>

callVars == <<call, tokens, normalized, user_url, inv_url, matched>>

replaceVars == <<original, lookup_result, replacement>>

\* where a finished lookup with results rs goes on: process_one_file goes
\* through the occurrences it can replace, if any; a direct call returns
AfterLookup(rs) ==
    IF InProcessOneFile
    THEN IF ReplaceableOccurrences(url_locations, rs, 1) # <<>>
         THEN "yield"
         ELSE Over
    ELSE "return"

\* lines 436-455 of process_one_file: read and scan the lines, return when
\* reading raised or no URL was found, else hand the distinct URLs to
\* _do_reverse_lookup
ScanFile ==
    /\ \/ call = "process_one_file" /\ pc = "call"
       \/ call = "rev_search" /\ pc = "scan"
    /\ all_lines' = ReadLines(rst_file)
    /\ url_locations' = ScanLines(all_lines', 1, <<>>)
    /\ urls' = Keys(url_locations')
    /\ pc' = LET after == AfterScan(rst_file, url_locations')
             IN IF after = "return" THEN Over ELSE after
    /\ UNCHANGED <<callVars, replaceVars, registry, package_urls, fetched,
                   warned, results, lookups, rst_file, records, dirVars,
                   mappingVars>>

\* lines 95-129 of _do_reverse_lookup: load the registry and group the URLs
\* by package
GroupUrls ==
    /\ \/ call = "_do_reverse_lookup" /\ pc = "call"
       \/ InProcessOneFile /\ pc = "lookup"
    /\ package_urls' = GroupByPackage(registry, urls, 1, <<>>)
    /\ lookups' = lookups + 1
    /\ pc' = IF package_urls' = <<>> THEN AfterLookup(results) ELSE "fetch"
    /\ UNCHANGED <<callVars, replaceVars, registry, urls, fetched, warned,
                   results, fileVars, dirVars, mappingVars>>

\* lines 131-138 and 151-172: the inventory of the next package loads
FetchInventory ==
    /\ pc = "fetch"
    /\ \E inv \in Inventories :
          LET group == package_urls[Len(fetched) + 1]
          IN /\ fetched' = Append(fetched, [package |-> group.package,
                                            ok |-> TRUE, inv |-> inv])
             /\ results' = results
                             \o FoundResults(group.package, group.urls, inv)
    /\ pc' = IF Len(fetched') = Len(package_urls)
             THEN AfterLookup(results')
             ELSE "fetch"
    /\ UNCHANGED <<callVars, replaceVars, registry, urls, package_urls,
                   warned, lookups, fileVars, dirVars, mappingVars>>

\* lines 131-149: the inventory of the next package fails to load
FetchFails ==
    /\ pc = "fetch"
    /\ LET group == package_urls[Len(fetched) + 1]
       IN /\ fetched' = Append(fetched, [package |-> group.package,
                                         ok |-> FALSE, inv |-> <<>>])
          /\ warned' = Append(warned, group.package)
          /\ results' = results
                          \o UnreachableResults(group.package, group.urls)
    /\ pc' = IF Len(fetched') = Len(package_urls)
             THEN AfterLookup(results')
             ELSE "fetch"
    /\ UNCHANGED <<callVars, replaceVars, registry, urls, package_urls,
                   lookups, fileVars, dirVars, mappingVars>>

\* the occurrence the loops of lines 466-467 are at: the one behind those
\* that have their record
Occurrence ==
    ReplaceableOccurrences(url_locations, results, 1)[Len(records) + 1]

\* where process_one_file goes on once it has yielded the records rs
AfterYield(rs) ==
    IF Len(rs) = Len(ReplaceableOccurrences(url_locations, results, 1))
    THEN Over
    ELSE "yield"

\* lines 468-477: the next occurrence has an entry, its context goes to
\* _compute_replacement
CallComputeReplacement ==
    /\ InProcessOneFile
    /\ pc = "yield"
    /\ Occurrence.lookup_result.rst_entry # PyNone
    /\ original' = ContextOf(all_lines, Occurrence.location)
    /\ lookup_result' = Occurrence.lookup_result
    /\ pc' = "compute"
    /\ UNCHANGED <<callVars, replacement, lookupVars, fileVars, dirVars,
                   mappingVars>>

\* lines 478-484: the record of the occurrence, with the contexts that
\* _compute_replacement returned
YieldReplacement ==
    /\ InProcessOneFile
    /\ pc = "computed"
    /\ records' = Append(records, UrlReplacement(Occurrence.location,
                                                 lookup_result, replacement))
    /\ pc' = AfterYield(records')
    /\ UNCHANGED <<callVars, replaceVars, lookupVars, rst_file, all_lines,
                   url_locations, dirVars, mappingVars>>

\* lines 485-498: the next occurrence has no entry, its record holds its
\* context unchanged
YieldUnchanged ==
    /\ InProcessOneFile
    /\ pc = "yield"
    /\ Occurrence.lookup_result.rst_entry = PyNone
    /\ records' = Append(records,
                      UrlReplacement(Occurrence.location,
                          Occurrence.lookup_result,
                          EmptyContexts(ContextOf(all_lines,
                                                  Occurrence.location))))
    /\ pc' = AfterYield(records')
    /\ UNCHANGED <<callVars, replaceVars, lookupVars, rst_file, all_lines,
                   url_locations, dirVars, mappingVars>>

\* what search_one_file got from process_one_file for one file: the
\* records, and the calls of _do_reverse_lookup made so far
Searched == [records |-> records, lookups |-> lookups]

\* lines 558-570 of rev_search: return when the dependencies are missing
\* or there is no file, else search_one_file on the first file
RevSearch ==
    /\ call = "rev_search"
    /\ pc = "call"
    /\ IF dependencies /\ rst_files # <<>>
       THEN /\ rst_file' = rst_files[1]
            /\ pc' = "scan"
       ELSE /\ pc' = "return"
            /\ UNCHANGED rst_file
    /\ UNCHANGED <<callVars, replaceVars, lookupVars, all_lines,
                   url_locations, records, dirVars, mappingVars>>

\* lines 569-570 of rev_search and 586 of search_one_file: the generator
\* of a file is exhausted, search_one_file returns and the loop goes to the
\* next file, whose call of process_one_file starts with fresh locals
NextFile ==
    /\ call = "rev_search"
    /\ pc = "searched"
    /\ searched' = Append(searched, Searched)
    /\ IF Len(searched') = Len(rst_files)
       THEN /\ pc' = "return"
            /\ UNCHANGED rst_file
       ELSE /\ rst_file' = rst_files[Len(searched') + 1]
            /\ pc' = "scan"
    /\ urls' = <<>>
    /\ package_urls' = <<>>
    /\ fetched' = <<>>
    /\ warned' = <<>>
    /\ results' = <<>>
    /\ all_lines' = <<>>
    /\ url_locations' = <<>>
    /\ records' = <<>>
    /\ UNCHANGED <<callVars, replaceVars, registry, lookups, dependencies,
                   rst_files, mappingVars>>

\* __init__.py lines 15-21: a call get_intersphinx_mapping(**keywords)
GetIntersphinxMapping ==
    /\ call = "get_intersphinx_mapping"
    /\ pc = "call"
    /\ LET outcome == get_intersphinx_mapping(registry, keywords)
       IN /\ raised' = outcome.raised
          /\ mapping' = outcome.value
          /\ pc' = IF outcome.raised = NoException THEN "return" ELSE "raise"
    /\ UNCHANGED <<callVars, replaceVars, lookupVars, fileVars, dirVars,
                   keywords>>

Next ==
    \/ Normalise
    \/ UriMatch
    \/ ComputeReplacement
    \/ ScanFile
    \/ GroupUrls
    \/ FetchInventory
    \/ FetchFails
    \/ CallComputeReplacement
    \/ YieldReplacement
    \/ YieldUnchanged
    \/ RevSearch
    \/ NextFile
    \/ GetIntersphinxMapping

Spec == Init /\ [][Next]_vars

(***************************************************************************)
(* Properties of normalise_token_stream.                                   *)
(***************************************************************************)
Returned(f) == call = f /\ pc = "return"

Placeholder == <<Unchanged(<<>>)>>

AllEmpty(stream) == \A i \in 1..Len(stream) : stream[i].text = <<>>

\* C3: normalise_token_stream is idempotent: normalising the stream it
\* returned gives that same stream, kinds and payloads included.
C3_NormaliseIdempotent ==
    Returned("normalise_token_stream")
        => normalise_token_stream(normalized) = normalized

\* a call that dropped an empty token standing between two tokens of one kind
C3_Witness ==
    /\ Returned("normalise_token_stream")
    /\ Len(tokens) = 3
    /\ tokens[1].kind = tokens[3].kind
    /\ tokens[2].kind # tokens[1].kind
    /\ tokens[1].text # <<>> /\ tokens[2].text = <<>> /\ tokens[3].text # <<>>
    /\ Len(normalized) = 1

\* C4: normalise_token_stream preserves the represented text: the payloads
\* of the result concatenate to the payloads of the input, and every
\* character keeps its kind.
C4_NormalisePreservesText ==
    Returned("normalise_token_stream")
        => /\ Payload(normalized) = Payload(tokens)
           /\ KindedChars(normalized) = KindedChars(tokens)

\* a call that merged a run of same-kind tokens holding different text
C4_Witness ==
    /\ Returned("normalise_token_stream")
    /\ Len(tokens) = 3
    /\ \A i \in 1..3 : tokens[i].kind = "Removed"
    /\ Payload(tokens) = <<"a", "b", "a">>
    /\ normalized = <<Removed(<<"a", "b", "a">>)>>

\* C5: the result of normalise_token_stream is a normalized stream: it is the
\* placeholder (Unchanged(""),) exactly when the input is empty or holds only
\* empty payloads; otherwise it is non-empty, holds no empty payload and no
\* two adjacent tokens of one kind.
C5_NormaliseOutputNormalized ==
    Returned("normalise_token_stream")
        => /\ (normalized = Placeholder) <=> AllEmpty(tokens)
           /\ ~AllEmpty(tokens)
                => /\ normalized # <<>>
                   /\ \A i \in 1..Len(normalized) : normalized[i].text # <<>>
                   /\ \A i \in 1..(Len(normalized) - 1) :
                         normalized[i].kind # normalized[i + 1].kind

\* a call on a non-empty stream of empty tokens, none of them Unchanged
C5_Witness ==
    /\ Returned("normalise_token_stream")
    /\ Len(tokens) = 2
    /\ AllEmpty(tokens)
    /\ \A i \in 1..2 : tokens[i].kind # "Unchanged"
    /\ normalized = Placeholder

(***************************************************************************)
(* Properties of _compute_replacement.                                     *)
(***************************************************************************)
Line == original.target_line

Url == lookup_result.url

\* "<package>:<rst_entry>"
TargetText == lookup_result.package \o <<":">> \o lookup_result.rst_entry

\* ":<domain>:"
DomainPrefix == <<":">> \o lookup_result.domain \o <<":">>

\* the role reference: ":<domain>:" + backtick + target + backtick
RoleReference == DomainPrefix \o <<BT>> \o TargetText \o <<BT>>

Has(s, c) == \E k \in 1..Len(s) : s[k] = c

\* the stream without its empty-payload tokens
DropEmpty(stream) == SelectSeq(stream, LAMBDA t : t.text # <<>>)

\* the context stream of an untouched context line
ContextStream(text) == <<Unchanged(text)>>

\* C1: the old token streams of a replacement reconstruct the original text:
\* the payloads of the old context-before, target and context-after streams
\* concatenate to context_before, the target line and context_after.
C1_OldStreamsReconstruct ==
    Returned("_compute_replacement")
        => /\ Payload(replacement.old[1]) = original.context_before
           /\ Payload(replacement.old[2]) = original.target_line
           /\ Payload(replacement.old[3]) = original.context_after

\* C2: a rewrite preserves everything outside the rewritten span: on each of
\* the three lines the Unchanged payloads of the new stream concatenate to
\* the Unchanged payloads of the old stream.
C2_UnchangedPreserved ==
    Returned("_compute_replacement")
        => \A i \in 1..3 :
              UnchangedPayload(replacement.new[i])
                  = UnchangedPayload(replacement.old[i])

\* the target line is P + backtick + T + " <" + URL + ">" + backtick + n
\* underscores + S, with P the first p and T the next t characters behind
\* the backtick, P and S free of backticks, T non-empty, free of backticks
\* and angle brackets and without whitespace at either end
FullLinkShape(p, t, n) ==
    LET P == Slice(Line, 0, p)
        T == Slice(Line, p + 1, p + 1 + t)
        stop == p + 1 + t + 2 + Len(Url) + 2 + n
        S == Slice(Line, stop, Len(Line))
    IN /\ stop <= Len(Line)
       /\ Line = P \o <<BT>> \o T \o <<" ", "<">> \o Url \o <<">", BT>>
                   \o Rep("_", n) \o S
       /\ ~Has(P, BT) /\ ~Has(S, BT)
       /\ ~Has(T, BT) /\ ~Has(T, "<") /\ ~Has(T, ">")
       /\ T[1] \notin WhiteSpace /\ T[Len(T)] \notin WhiteSpace

\* what C6 expects of a line of that shape
FullLinkExpected(p, t, n) ==
    LET P == Slice(Line, 0, p)
        T == Slice(Line, p + 1, p + 1 + t)
        S == Slice(Line, p + 1 + t + 2 + Len(Url) + 2 + n, Len(Line))
    IN /\ replacement.old[2]
            = DropEmpty(<<Unchanged(P \o <<BT>> \o T \o <<" ", "<">>),
                          Removed(Url),
                          Unchanged(<<">", BT>>),
                          Removed(Rep("_", n)),
                          Unchanged(S)>>)
       /\ replacement.new[2]
            = DropEmpty(<<Unchanged(P),
                          Added(DomainPrefix),
                          Unchanged(<<BT>> \o T \o <<" ", "<">>),
                          Added(TargetText),
                          Unchanged(<<">", BT>> \o S)>>)
       /\ replacement.old[1] = ContextStream(original.context_before)
       /\ replacement.new[1] = ContextStream(original.context_before)
       /\ replacement.old[3] = ContextStream(original.context_after)
       /\ replacement.new[3] = ContextStream(original.context_after)

\* the places of the target line that hold a backtick, where the link of
\* such a reading can open
BacktickPlaces == {p \in 0..Len(Line) : CharAt(Line, p) = BT}

\* C6 as stated: for every reading of the target line as P + backtick + T +
\* " <" + URL + ">" + backtick + ("_" or "__") + S, the old and new target
\* streams are the five expected tokens (empty ones dropped) and both
\* context lines are single Unchanged tokens, the same on both sides.
C6_FullLinkTokensAsStated ==
    Returned("_compute_replacement")
        => \A p \in BacktickPlaces, t \in 1..Len(Line), n \in 1..2 :
              FullLinkShape(p, t, n) => FullLinkExpected(p, t, n)

\* C6 amended: the same, for the readings in which the underscores are all
\* the underscores behind the closing backtick, up to two: a single "_" is
\* not followed by a suffix S that begins with "_".
C6_FullLinkTokens ==
    Returned("_compute_replacement")
        => \A p \in BacktickPlaces, t \in 1..Len(Line), n \in 1..2 :
              /\ FullLinkShape(p, t, n)
              /\ ~(n = 1 /\ CharAt(Line, p + 1 + t + 2 + Len(Url) + 2 + n) = "_")
              => FullLinkExpected(p, t, n)

\* a full link with a prefix, two underscores and a suffix has been rewritten
C6_Witness ==
    /\ Returned("_compute_replacement")
    /\ \E p \in 1..Len(Line), t \in 1..Len(Line) :
          /\ FullLinkShape(p, t, 2)
          /\ p + 1 + t + 2 + Len(Url) + 2 + 2 < Len(Line)
          /\ FullLinkExpected(p, t, 2)

\* an RST link around the URL: "<" URL ">" backtick "_" somewhere in the line
HasLinkAroundUrl ==
    \E i \in 0..Len(Line) :
        StartsWithAt(Line, i, <<"<">> \o Url \o <<">", BT, "_">>)

\* the same with trailing punctuation allowed between the URL and the ">"
HasLinkAroundUrlPunct ==
    \E i \in 0..Len(Line) :
        /\ CharAt(Line, i) = "<"
        /\ StartsWithAt(Line, i + 1, Url)
        /\ \E k \in 0..Len(Line) :
              /\ \A j \in 0..(k - 1) :
                    CharAt(Line, i + 1 + Len(Url) + j) \in TrailingPunctuation
              /\ StartsWithAt(Line, i + 1 + Len(Url) + k, <<">", BT, "_">>)

\* what C7 expects when the URL stands at offset p of the target line
PlainUrlExpected(p) ==
    /\ Payload(replacement.new[2])
         = Slice(Line, 0, p) \o RoleReference
           \o Slice(Line, p + Len(Url), Len(Line))
    /\ replacement.old[1] = ContextStream(original.context_before)
    /\ replacement.new[1] = ContextStream(original.context_before)
    /\ replacement.old[3] = ContextStream(original.context_after)
    /\ replacement.new[3] = ContextStream(original.context_after)

\* C7 as stated: for every reading of the target line as P + URL + S in which
\* "<" URL ">" backtick "_" does not occur and S does not begin with trailing
\* punctuation, the new target stream reconstructs to P + role reference + S
\* and both context lines are unchanged.
C7_PlainUrlAsStated ==
    Returned("_compute_replacement")
        => \A p \in 0..Len(Line) :
              /\ StartsWithAt(Line, p, Url)
              /\ ~HasLinkAroundUrl
              /\ CharAt(Line, p + Len(Url)) \notin TrailingPunctuation
              => PlainUrlExpected(p)

\* C7 amended: the same, when the URL at P is the first occurrence of the URL
\* in the line and the line holds no link around the URL, also none with
\* trailing punctuation between the URL and the ">".
C7_PlainUrl ==
    Returned("_compute_replacement")
        => \A p \in 0..Len(Line) :
              /\ StartsWithAt(Line, p, Url)
              /\ \A q \in 0..(p - 1) : ~StartsWithAt(Line, q, Url)
              /\ ~HasLinkAroundUrlPunct
              /\ CharAt(Line, p + Len(Url)) \notin TrailingPunctuation
              => PlainUrlExpected(p)

\* a plain URL between a prefix and a suffix has been rewritten
C7_Witness ==
    /\ Returned("_compute_replacement")
    /\ \E p \in 1..Len(Line) :
          /\ StartsWithAt(Line, p, Url)
          /\ \A q \in 0..(p - 1) : ~StartsWithAt(Line, q, Url)
          /\ ~HasLinkAroundUrlPunct
          /\ p + Len(Url) < Len(Line)
          /\ CharAt(Line, p + Len(Url)) \notin TrailingPunctuation
          /\ PlainUrlExpected(p)

(***************************************************************************)
(* Properties of uri_match.                                                *)
(***************************************************************************)
SlashStableSlash == <<"/", "s", "t", "a", "b", "l", "e", "/">>

SlashV20Slash == <<"/", "v", "2", ".", "0", "/">>

\* C8: version placeholders align: whenever the candidate is u + "/stable/" +
\* x and the inventory URI is u + "/v2.0/" + x, uri_match returns true, also
\* when u ends in a version-like segment.
C8_VersionPlaceholdersAlign ==
    Returned("uri_match")
        => \A k \in 0..Len(user_url) :
              /\ StartsWithAt(user_url, k, SlashStableSlash)
              /\ inv_url = Slice(user_url, 0, k) \o SlashV20Slash
                           \o Slice(user_url, k + Len(SlashStableSlash),
                                    Len(user_url))
              => matched

\* C9: uri_match is order-insensitive: the result is the result of the call
\* with the two arguments exchanged.
C9_UriMatchSymmetric ==
    Returned("uri_match") => (matched <=> uri_match(inv_url, user_url))

\* case (2) of C10: one URL is the other with "/index.html" appended, or with
\* "index.html" appended behind its trailing slash
IndexInterchangeable(a, b) ==
    \/ a = b \o SlashIndexHtml
    \/ b = a \o SlashIndexHtml
    \/ EndsWith(b, <<"/">>) /\ a = b \o IndexHtml
    \/ EndsWith(a, <<"/">>) /\ b = a \o IndexHtml

\* case (3) of C10: version segments replaced, then a trailing slash and a
\* "/index.html" suffix stripped
SuffixStripped(u) ==
    LET v == _normalize_url_for_matching(u)
        w == IF EndsWith(v, <<"/">>) THEN Slice(v, 0, Len(v) - 1) ELSE v
    IN IF EndsWith(w, SlashIndexHtml)
       THEN Slice(w, 0, Len(w) - Len(SlashIndexHtml))
       ELSE w

\* C10: uri_match returns true exactly when the two URLs are equal, or are
\* interchangeable under index.html normalization, or are equal after both
\* have their version segments replaced and a trailing slash and a
\* "/index.html" suffix stripped; in every other case, so when they differ
\* by a "/index.html" that is not at the end, it returns false.
C10_UriMatchExactly ==
    Returned("uri_match")
        => (matched <=> \/ user_url = inv_url
                        \/ IndexInterchangeable(user_url, inv_url)
                        \/ SuffixStripped(user_url) = SuffixStripped(inv_url))

(***************************************************************************)
(* Properties of _do_reverse_lookup.                                       *)
(***************************************************************************)
\* the positions of a list that hold u
PositionsOf(list, u) == {k \in 1..Len(list) : list[k] = u}

\* the positions of the results that are about u
ResultsAbout(u) == {j \in 1..Len(results) : results[j].url = u}

\* no package of the registry takes u, by prefix or by host and path
MatchesNoPackage(u) ==
    \A i \in 1..Len(registry) :
        /\ ~StartsWith(u, registry[i].base_url)
        /\ ~SameDomainAndPath(u, registry[i].base_url)

\* the result the specification gives a URL of no package
NoPackageResult(u) ==
    [url |-> u, package |-> PyNone, domain |-> PyNone, rst_entry |-> PyNone,
     display_name |-> PyNone, inventory_url |-> PyNone]

\* C11: _do_reverse_lookup returns exactly one result per input URL, every
\* one of several equal URLs getting its own, and an input URL that matches
\* no package of the registry gets a result whose package and every other
\* field is None.
C11_OneResultPerUrl ==
    Returned("_do_reverse_lookup")
        => /\ Len(results) = Len(urls)
           /\ \A k \in 1..Len(urls) :
                 /\ Cardinality(ResultsAbout(urls[k]))
                        = Cardinality(PositionsOf(urls, urls[k]))
                 /\ MatchesNoPackage(urls[k])
                        => \E j \in ResultsAbout(urls[k]) :
                              results[j] = NoPackageResult(urls[k])

\* where the path of an explored URL begins: behind the host that follows
\* "http://"
PathStart(u) ==
    CHOOSE i \in Len(HttpPrefix)..Len(u) :
        /\ i = Len(u) \/ u[i + 1] = "/"
        /\ \A j \in (Len(HttpPrefix) + 1)..i : u[j] # "/"

HostOf(u) == Slice(u, Len(HttpPrefix), PathStart(u))

PathOf(u) == Slice(u, PathStart(u), Len(u))

\* the packages whose base URL u begins with
PrefixPackages(u) ==
    {i \in 1..Len(registry) : StartsWith(u, registry[i].base_url)}

\* the packages of the host of u whose normalized path is a prefix of the
\* normalized path of u, or the other way round
NearPackages(u) ==
    {i \in 1..Len(registry) :
        LET base == registry[i].base_url
            base_path == RStrip(_normalize_url_for_matching(PathOf(base)),
                                {"/"})
            url_path == NormalizedForCompare(PathOf(u))
        IN /\ HostOf(u) = HostOf(base)
           /\ \/ Slice(url_path, 0, Len(base_path)) = base_path
              \/ Slice(base_path, 0, Len(url_path)) = url_path}

Least(S) == CHOOSE i \in S : \A j \in S : i <= j

\* the package C12 gives u, PyNone when it gives none
ExpectedPackage(u) ==
    IF PrefixPackages(u) # {}
    THEN registry[Least(PrefixPackages(u))].package
    ELSE IF NearPackages(u) # {}
    THEN registry[Least(NearPackages(u))].package
    ELSE PyNone

\* the packages whose group holds u
GroupsOf(u) ==
    {package_urls[g].package : g \in {h \in 1..Len(package_urls) :
        PositionsOf(package_urls[h].urls, u) # {}}}

\* C12: a URL is put under the first package, in registry order, whose base
\* URL is a prefix of it; only when there is none, under the first package
\* in registry order of the same network location whose normalized path is
\* a prefix of the normalized path of the URL or has it as a prefix; else
\* under no package.  Every result about the URL carries that package.
C12_AttributionPriority ==
    Returned("_do_reverse_lookup")
        => \A k \in 1..Len(urls) :
              LET expected == ExpectedPackage(urls[k])
              IN /\ GroupsOf(urls[k])
                        = (IF expected = PyNone THEN {} ELSE {expected})
                 /\ \A j \in ResultsAbout(urls[k]) :
                        results[j].package = expected

\* a returned call with a URL that a later package takes by prefix though
\* an earlier one is near it, and a URL taken by nearness alone
C12_Witness ==
    /\ Returned("_do_reverse_lookup")
    /\ \E k \in 1..Len(urls) :
          /\ PrefixPackages(urls[k]) # {}
          /\ NearPackages(urls[k]) # {}
          /\ Least(NearPackages(urls[k])) < Least(PrefixPackages(urls[k]))
          /\ ResultsAbout(urls[k]) # {}
    /\ \E k \in 1..Len(urls) :
          /\ PrefixPackages(urls[k]) = {}
          /\ Cardinality(NearPackages(urls[k])) > 1
          /\ ResultsAbout(urls[k]) # {}

\* the fetches made for the inventory of package p
FetchesOf(p) == {k \in 1..Len(fetched) : fetched[k].package = p}

\* some URL of the call belongs to package p
HasUrlOf(p) == \E k \in 1..Len(urls) : ExpectedPackage(urls[k]) = p

\* C13: within one call the inventory of a package is never fetched twice
\* and never fetched unless a URL of the call belongs to the package, so
\* none is fetched for a URL of no package; when the call returns, the
\* inventory of every package that a URL belongs to was fetched once.
C13_FetchedOncePerPackage ==
    \A i \in 1..Len(registry) :
        LET p == registry[i].package
        IN /\ Cardinality(FetchesOf(p)) <= 1
           /\ FetchesOf(p) # {} => HasUrlOf(p)
           /\ pc = "return" /\ HasUrlOf(p) => Cardinality(FetchesOf(p)) = 1

\* a returned call with several URLs of one package and one fetch
C13_Witness ==
    /\ Returned("_do_reverse_lookup")
    /\ Len(fetched) = 1
    /\ Len(package_urls) = 1
    /\ Len(package_urls[1].urls) > 1

\* the results about the URLs of package p, in the order of the results
ResultsOfPackage(p) == SelectSeq(results, LAMBDA r : r.package = p)

\* C14: a failing fetch does not end the call: every group is worked off,
\* every URL of the failing group gets a result with the package set and
\* domain, rst_entry, display_name and inventory_url None, the package is
\* warned about, and the results of every other group are those its own
\* inventory gives, as without the failure.
C14_FetchFailureIsolated ==
    Returned("_do_reverse_lookup")
        => /\ Len(fetched) = Len(package_urls)
           /\ \A g \in 1..Len(package_urls) :
                 LET p == package_urls[g].package
                     url_list == package_urls[g].urls
                 IN IF fetched[g].ok
                    THEN ResultsOfPackage(p)
                            = FoundResults(p, url_list, fetched[g].inv)
                    ELSE /\ ResultsOfPackage(p)
                               = [k \in 1..Len(url_list) |->
                                     [url |-> url_list[k], package |-> p,
                                      domain |-> PyNone, rst_entry |-> PyNone,
                                      display_name |-> PyNone,
                                      inventory_url |-> PyNone]]
                         /\ PositionsOf(warned, p) # {}

\* a returned call whose first fetch failed and whose second one found an
\* entry
C14_Witness ==
    /\ Returned("_do_reverse_lookup")
    /\ Len(fetched) = 2
    /\ ~fetched[1].ok
    /\ fetched[2].ok
    /\ \E j \in 1..Len(results) : results[j].rst_entry # PyNone

\* C15: the result for a URL whose inventory could not be fetched differs
\* from the result for the same URL when the inventory was fetched and
\* held no matching URI.
C15_UnreachableDistinct ==
    Returned("_do_reverse_lookup")
        => \A g \in 1..Len(fetched) :
              ~fetched[g].ok
                  => \A j \in 1..Len(results) :
                        results[j].package = fetched[g].package
                            => results[j] # ResultOfUrl(results[j].url,
                                                fetched[g].package, <<>>)

\* the entries of an inventory whose URI matches u
MatchingEntries(u, inv) == {i \in 1..Len(inv) : uri_match(u, inv[i].uri)}

\* C16: for every URL of a package whose inventory was fetched, domain,
\* rst_entry and display_name are those of the first entry of the
\* inventory, in its natural order, whose URI matches the URL, also when
\* several entries have that URI, and inventory_url is the URI of that
\* entry.
C16_FirstMatchingEntry ==
    Returned("_do_reverse_lookup")
        => \A g \in 1..Len(fetched) :
              fetched[g].ok
                  => \A j \in 1..Len(results) :
                        LET hits == MatchingEntries(results[j].url,
                                                    fetched[g].inv)
                            first == fetched[g].inv[Least(hits)]
                        IN results[j].package = fetched[g].package /\ hits # {}
                              => /\ results[j].domain = first.key
                                 /\ results[j].rst_entry = first.entry
                                 /\ results[j].display_name = first.display_name
                                 /\ results[j].inventory_url = first.uri

(***************************************************************************)
(* Properties of process_one_file.                                         *)
(***************************************************************************)
\* the text of line n of the file as a context holds it, without trailing
\* whitespace; empty when the file has no line n
LineText(n) ==
    IF n \in 1..Len(all_lines) THEN RStrip(all_lines[n], WhiteSpace) ELSE <<>>

\* the records about URL u
RecordsAbout(u) == {j \in 1..Len(records) : records[j].matched_url = u}

\* the fetch for the package of group g loaded an inventory none of whose
\* URIs matches u
FetchedWithoutEntry(u) ==
    \E g \in 1..Len(fetched) :
        /\ fetched[g].package = ExpectedPackage(u)
        /\ fetched[g].ok
        /\ MatchingEntries(u, fetched[g].inv) = {}

\* C17: when a URL of the file matches a package but no URI of the loaded
\* inventory matches it, its result has the package set and rst_entry None,
\* there are records about it, and each of them has context_old equal to
\* context_new, every stream a single Unchanged token with the text of the
\* line before, of the line itself and of the line behind, and
\* inventory_url None.
C17_NoEntryNoOp ==
    Returned("process_one_file")
        => \A k \in 1..Len(urls) :
              FetchedWithoutEntry(urls[k])
                  => /\ \E i \in 1..Len(results) :
                           /\ results[i].url = urls[k]
                           /\ results[i].package = ExpectedPackage(urls[k])
                           /\ results[i].rst_entry = PyNone
                     /\ RecordsAbout(urls[k]) # {}
                     /\ \A j \in RecordsAbout(urls[k]) :
                           LET n == records[j].line_num
                           IN /\ records[j].context_old = records[j].context_new
                              /\ records[j].context_old
                                    = << <<Unchanged(LineText(n - 1))>>,
                                         <<Unchanged(LineText(n))>>,
                                         <<Unchanged(LineText(n + 1))>> >>
                              /\ records[j].inventory_url = PyNone

\* a returned scan with a record of a URL without entry on a line that has
\* a line behind it, and a record of one on a line that has a line before
C17_Witness ==
    /\ Returned("process_one_file")
    /\ \E k \in 1..Len(urls) :
          /\ FetchedWithoutEntry(urls[k])
          /\ \E j \in RecordsAbout(urls[k]) :
                records[j].line_num = 1 /\ LineText(2) # <<>>
    /\ \E k \in 1..Len(urls) :
          /\ FetchedWithoutEntry(urls[k])
          /\ \E j \in RecordsAbout(urls[k]) :
                records[j].line_num = 2 /\ LineText(1) # <<>>

\* a match of url_pattern can start at offset s of the line: "http://" or
\* "https://" and a character of a URL behind it
CanStartUrl(line, s) ==
    \/ StartsWithAt(line, s, HttpPrefix)
          /\ s + Len(HttpPrefix) < Len(line)
          /\ line[s + Len(HttpPrefix) + 1] \notin UrlStops
    \/ StartsWithAt(line, s, HttpsPrefix)
          /\ s + Len(HttpsPrefix) < Len(line)
          /\ line[s + Len(HttpsPrefix) + 1] \notin UrlStops

\* the offsets where findall finds a URL: where one can start and none that
\* started before in the same run of URL characters has swallowed it
UrlStarts(line) ==
    {s \in 0..(Len(line) - 1) :
        /\ CanStartUrl(line, s)
        /\ ~\E t \in 0..(s - 1) :
               /\ CanStartUrl(line, t)
               /\ \A c \in (t + 1)..s : line[c] \notin UrlStops}

\* the URL found at offset s: up to the next excluded character, without
\* trailing punctuation
UrlAt(line, s) ==
    LET ends == {e \in s..Len(line) :
                    /\ e = Len(line) \/ line[e + 1] \in UrlStops
                    /\ \A c \in (s + 1)..e : line[c] \notin UrlStops}
    IN RStrip(Slice(line, s, Least(ends)), TrailingPunctuation)

\* how often URL u occurs on a line
Occurrences(u, line) ==
    Cardinality({s \in UrlStarts(line) : UrlAt(line, s) = u})

\* the URLs that occur in the file
FoundUrls ==
    UNION {{UrlAt(all_lines[n], s) : s \in UrlStarts(all_lines[n])} :
              n \in 1..Len(all_lines)}

\* the records about URL u on line n
RecordsAt(u, n) ==
    {j \in RecordsAbout(u) : records[j].line_num = n}

C19_OneRecordPerOccurrence ==
    Returned("process_one_file")
        => /\ \A u \in FoundUrls :
                 ExpectedPackage(u) # PyNone
                     => \A n \in 1..Len(all_lines) :
                           Cardinality(RecordsAt(u, n))
                               = Occurrences(u, all_lines[n])
           /\ \A j \in 1..Len(records) :
                 /\ records[j].matched_url \in FoundUrls
                 /\ records[j].line_num \in 1..Len(all_lines)

\* a returned scan of a file with a URL twice on one line and once more on
\* another, and three records about it
C19_Witness ==
    /\ Returned("process_one_file")
    /\ \E u \in FoundUrls :
          /\ \E n, o \in 1..Len(all_lines) :
                /\ n # o
                /\ Occurrences(u, all_lines[n]) = 2
                /\ Occurrences(u, all_lines[o]) = 1
          /\ Cardinality(RecordsAbout(u)) = 3

\* C20: the new target line of a record of a resolved URL, scanned again,
\* does not hold the matched URL any more.
C20_RewriteIdempotent ==
    Returned("process_one_file")
        => \A j \in 1..Len(records) :
              records[j].inventory_url # PyNone
                  => Occurrences(records[j].matched_url,
                                 Payload(records[j].context_new[2])) = 0

(***************************************************************************)
(* Properties of files that cannot be read, of get_intersphinx_mapping and *)
(* of the registry.                                                        *)
(***************************************************************************)
\* the calls of _do_reverse_lookup made before the k-th file of rev_search
LookupsBefore(k) == IF k = 1 THEN 0 ELSE searched[k - 1].lookups

\* a file has a URL that process_one_file finds
HasUrls(file) == ScanLines(file.lines, 1, <<>>) # <<>>

\* C21: a file that cannot be opened or read makes process_one_file yield
\* no replacement, without raising and without a call of the resolver, and
\* rev_search goes on with the remaining files of the directory: every file
\* is searched, and each readable file with URLs gets its call of the
\* resolver
C21_UnreadableFileSkipped ==
    /\ InProcessOneFile => pc # "raise"
    /\ Returned("process_one_file") /\ ~rst_file.readable
           => records = <<>> /\ lookups = 0
    /\ call = "rev_search"
           => \A k \in 1..Len(searched) :
                 IF rst_files[k].readable
                 THEN HasUrls(rst_files[k])
                          => searched[k].lookups = LookupsBefore(k) + 1
                 ELSE /\ searched[k].records = <<>>
                      /\ searched[k].lookups = LookupsBefore(k)
    /\ Returned("rev_search") /\ dependencies
           => Len(searched) = Len(rst_files)

\* rev_search returned from a directory whose first file cannot be read
\* and whose second file gave a record
C21_Witness ==
    /\ Returned("rev_search")
    /\ Len(searched) = 2
    /\ ~rst_files[1].readable
    /\ HasUrls(rst_files[1])
    /\ searched[1].records = <<>>
    /\ searched[2].records # <<>>

\* the names of the packages of the registry
RegistryPackages == {registry[i].package : i \in 1..Len(registry)}

\* the call passes packages = S with a name that is not in the registry
PassesUnknownPackage ==
    /\ call = "get_intersphinx_mapping"
    /\ keywords # <<>>
    /\ keywords[1].name = "packages"
    /\ \E p \in keywords[1].value : p \notin RegistryPackages

\* C22: get_intersphinx_mapping(packages=S) raises a ValueError when S
\* holds a name that is not in the registry, and returns no mapping
C22_UnknownPackageValueError ==
    PassesUnknownPackage /\ pc # "call"
        => pc = "raise" /\ raised = "ValueError"

\* two packages of the registry reg have the same base URL
HasDuplicateBaseUrl(reg) ==
    \E i, j \in 1..Len(reg) : i # j /\ reg[i].base_url = reg[j].base_url

\* C23: no two packages of the registry share a base URL, and loading a
\* registry in which two do is rejected or flagged: a call that loaded
\* such a registry does not return without a warning
C23_DuplicateBaseUrlRejected ==
    Returned("_do_reverse_lookup") \/ Returned("get_intersphinx_mapping")
        => ~HasDuplicateBaseUrl(registry) \/ warned # <<>>

(***************************************************************************)
(* Properties of the strategies of _compute_replacement.                   *)
(***************************************************************************)
\* _compute_replacement has returned, to a direct caller or to
\* process_one_file
Computed ==
    \/ Returned("_compute_replacement")
    \/ InProcessOneFile /\ pc = "computed"

\* the pattern of the full-link strategy matches the target line
FullLinkMatches == SearchFull(Line, Url) # NoMatch

\* the pattern of the bare-link strategy matches the target line
BareLinkMatches == SearchSimple(Line, Url) # NoMatch

\* what each strategy gives for the arguments of the call
FullLinkResult ==
    _compute_full_link_replacement(
        Line, original.context_before, original.context_after,
        lookup_result, TargetText)

BareLinkResult ==
    _compute_simple_link_replacement(
        Line, original.context_before, original.context_after,
        lookup_result, TargetText, RoleReference)

PlainUrlResult ==
    _compute_url_replacement(
        Line, original.context_before, original.context_after,
        lookup_result, RoleReference)

\* C24: _compute_replacement returns the result of the first strategy, in
\* the order full link, bare link, plain URL, whose pattern matches the
\* target line; when the full-link pattern matches, the result is that of
\* the full-link strategy whatever the other two give
C24_StrategyPriority ==
    Computed
        => replacement = IF FullLinkMatches
                         THEN FullLinkResult
                         ELSE IF BareLinkMatches
                         THEN BareLinkResult
                         ELSE PlainUrlResult

\* a call on a line that the full-link and the bare-link patterns both
\* match, where the two strategies give different results
C24_Witness ==
    /\ Returned("_compute_replacement")
    /\ FullLinkMatches
    /\ BareLinkMatches
    /\ BareLinkResult # None
    /\ BareLinkResult # FullLinkResult
    /\ PlainUrlResult # FullLinkResult
    /\ replacement = FullLinkResult

\* the number of backticks of s
RECURSIVE Backticks(_)
Backticks(s) ==
    IF s = <<>>
    THEN 0
    ELSE (IF Head(s) = BT THEN 1 ELSE 0) + Backticks(Tail(s))

\* s ends in an open backtick followed by text without a backtick: its last
\* backtick is not the last character and does not close an earlier one
EndsInOpenBacktick(s) ==
    \E i \in 1..(Len(s) - 1) :
        /\ s[i] = BT
        /\ \A k \in (i + 1)..Len(s) : s[k] # BT
        /\ Backticks(s) % 2 = 1

\* a stream holds a token of the kind
HasKind(stream, kind) == \E k \in 1..Len(stream) : stream[k].kind = kind

\* the replacement edits the line before the target line
ContextBeforeEdited ==
    \/ HasKind(replacement.old[1], "Removed")
    \/ HasKind(replacement.new[1], "Added")
    \/ replacement.old[1] # replacement.new[1]

\* C25: the bare-link strategy edits the context-before line if and only
\* if that line ends in an open backtick followed by non-backtick text;
\* otherwise the context-before line is unchanged and the matched span of
\* the target line is replaced by the role reference
C25_OpenBacktickOnly ==
    Returned("_compute_replacement") /\ ~FullLinkMatches /\ BareLinkMatches
        => /\ ContextBeforeEdited
                <=> EndsInOpenBacktick(original.context_before)
           /\ ~EndsInOpenBacktick(original.context_before)
                => \E k \in 1..Len(replacement.new[2]) :
                       replacement.new[2][k] = Added(RoleReference)


\* the number of the first line of the file on which URL u occurs
FirstSeen(u) ==
    Least({n \in 1..Len(all_lines) : Occurrences(u, all_lines[n]) > 0})

\* C26: process_one_file yields its records in the order of the scan: a
\* record of a URL first seen on an earlier line never comes after a
\* record of a URL first seen on a later line, whatever the packages of the
\* two URLs, and the records of one URL come in ascending line number
C26_ScanOrder ==
    Returned("process_one_file")
        => \A i, j \in 1..Len(records) :
              i < j
                  => /\ FirstSeen(records[i].matched_url)
                            <= FirstSeen(records[j].matched_url)
                     /\ records[i].matched_url = records[j].matched_url
                            => records[i].line_num <= records[j].line_num


\* the inventory fetched for the package of result r, when one was fetched
FetchedFor(r) ==
    {g \in 1..Len(fetched) : fetched[g].ok /\ fetched[g].package = r.package}

\* the places of the inventory whose URI is exactly the URL
ExactEntries(u, inv) == {i \in 1..Len(inv) : inv[i].uri = u}

\* C27 as stated: when the inventory fetched for the package of a URL has
\* an entry whose URI equals the URL, the result has inventory_url equal to
\* the URL, also when a URI that matches it only through index.html or
\* version normalisation comes earlier in the inventory.
C27_ExactNotDisplaced ==
    Returned("_do_reverse_lookup")
        => \A j \in 1..Len(results) :
              \A g \in FetchedFor(results[j]) :
                 ExactEntries(results[j].url, fetched[g].inv) # {}
                     => results[j].inventory_url = results[j].url

\* C27: the inventory_url of a result is the first URI of the fetched
\* inventory, in inventory order, that uri_match accepts for the URL: it is
\* the URL itself when no URI before the equal one matches the URL, and
\* the earlier matching URI otherwise; it is None when no URI matches
C27_FirstMatchingUri ==
    Returned("_do_reverse_lookup")
        => \A j \in 1..Len(results) :
              \A g \in FetchedFor(results[j]) :
                 LET hits == MatchingEntries(results[j].url, fetched[g].inv)
                     exact == ExactEntries(results[j].url, fetched[g].inv)
                 IN /\ hits # {}
                        => results[j].inventory_url
                              = fetched[g].inv[Least(hits)].uri
                    /\ hits = {} => results[j].inventory_url = PyNone
                    /\ exact # {} /\ Least(exact) = Least(hits)
                        => results[j].inventory_url = results[j].url

\* a returned lookup of a URL whose inventory holds the URL itself after a
\* URI that matches it by version normalisation, and one of a URL whose
\* inventory holds the URL itself first
C27_Witness ==
    /\ Returned("_do_reverse_lookup")
    /\ \E j \in 1..Len(results) :
          \E g \in FetchedFor(results[j]) :
             LET hits == MatchingEntries(results[j].url, fetched[g].inv)
                 exact == ExactEntries(results[j].url, fetched[g].inv)
             IN /\ exact # {}
                /\ Least(hits) < Least(exact)
                /\ results[j].inventory_url # results[j].url
                /\ results[j].inventory_url = fetched[g].inv[Least(hits)].uri


\* the two sides of a replacement are pure: no Added token on the old
\* side, no Removed token on the new side, and one context-after stream
SidesPure(context_old, context_new) ==
    /\ \A i \in 1..3 :
          /\ ~HasKind(context_old[i], "Added")
          /\ ~HasKind(context_new[i], "Removed")
    /\ context_old[3] = context_new[3]

\* C28: every replacement that _compute_replacement returns and every
\* record that process_one_file yields has no Added token on its old side
\* and no Removed token on its new side, in any of the three streams, and
\* the same context-after stream on both sides
C28_SidePurity ==
    /\ Computed
          => /\ replacement # None
             /\ SidesPure(replacement.old, replacement.new)
    /\ InProcessOneFile
          => \A j \in 1..Len(records) :
                SidesPure(records[j].context_old, records[j].context_new)

\* a returned scan with a record that edits the line before and the target
\* line: text Removed on the old side of each, a reference Added on the new
\* side of the line before
C28_Witness ==
    /\ Returned("process_one_file")
    /\ \E j \in 1..Len(records) :
          /\ HasKind(records[j].context_old[1], "Removed")
          /\ HasKind(records[j].context_new[1], "Added")
          /\ HasKind(records[j].context_old[2], "Removed")
          /\ records[j].context_old # records[j].context_new

\* the places of the package groups that hold URL u
GroupIndexesOf(u) ==
    {g \in 1..Len(package_urls) :
        \E k \in 1..Len(package_urls[g].urls) : package_urls[g].urls[k] = u}

\* the entry fields of a result are all None or all set; the display name
\* is None when the entry is
FieldsConsistent(r) ==
    /\ r.domain = PyNone <=> r.rst_entry = PyNone
    /\ r.rst_entry = PyNone <=> r.inventory_url = PyNone
    /\ r.rst_entry = PyNone => r.display_name = PyNone

\* C29: every result that _do_reverse_lookup returns names a package of
\* the registry, has domain, rst_entry and inventory_url all None or all
\* set, and has no display name without an entry; every input URL is in at
\* most one package group and all its results name one package
C29_FieldConsistency ==
    Returned("_do_reverse_lookup")
        => /\ \A j \in 1..Len(results) :
                 /\ results[j].package \in RegistryPackages
                 /\ FieldsConsistent(results[j])
           /\ \A k \in 1..Len(urls) : Cardinality(GroupIndexesOf(urls[k])) <= 1
           /\ \A i, j \in 1..Len(results) :
                 results[i].url = results[j].url
                     => results[i].package = results[j].package

\* a returned lookup under a registry where two packages have the base URL
\* of a URL, with a result whose entry fields are set and one whose entry
\* fields are None
C29_Witness ==
    /\ Returned("_do_reverse_lookup")
    /\ HasDuplicateBaseUrl(registry)
    /\ \E i, j \in 1..Len(results) :
          /\ results[i].rst_entry # PyNone
          /\ results[i].inventory_url # PyNone
          /\ results[j].rst_entry = PyNone
          /\ results[j].package # PyNone
          /\ Cardinality(GroupIndexesOf(results[i].url)) = 1


\* u is a substring of line
Within(u, line) ==
    \E i \in 0..(Len(line) - Len(u)) : Slice(line, i, i + Len(u)) = u

\* process_one_file has received a replacement for an occurrence
ComputedForFile == InProcessOneFile /\ pc = "computed"

\* C30: in process_one_file the matched URL of every occurrence handed to
\* _compute_replacement, and of every yielded record, is a substring of its
\* target line, so the search of the plain-URL strategy finds the URL and
\* the replacement of the whole line, taken when that search fails, is
\* never what a scanned file gets
C30_UrlWithinTargetLine ==
    /\ ComputedForFile
          => /\ Within(Url, Line)
             /\ SearchPlainUrl(Line, Url) # NoMatch
             /\ ~FullLinkMatches /\ ~BareLinkMatches
                   => LET url_match == SearchPlainUrl(Line, Url)
                          found == _make_line_tokens(Line, url_match.start,
                                       url_match.end, Url, RoleReference)
                      IN replacement
                            = _make_replacement(original.context_before,
                                  original.context_after, found.old, found.new)
    /\ InProcessOneFile
          => \A j \in 1..Len(records) :
                /\ records[j].line_num \in 1..Len(all_lines)
                /\ Within(records[j].matched_url,
                          all_lines[records[j].line_num])
                /\ Within(records[j].matched_url,
                          Payload(records[j].context_old[2]))

\* a replacement that process_one_file got from the plain-URL strategy for
\* a URL inside a longer line: text of the line stays Unchanged
C30_Witness ==
    /\ ComputedForFile
    /\ ~FullLinkMatches
    /\ ~BareLinkMatches
    /\ Line # Url
    /\ HasKind(replacement.old[2], "Unchanged")
    /\ HasKind(replacement.new[2], "Added")

====
